---- MODULE Spec2Model ----
(***************************************************************************)
(* Rockchip VPU H.264 decoder: the bit-field writer, the RPS assembler     *)
(* and the per-job life cycle (device_run, watchdog, interrupt).           *)
(*                                                                         *)
(* A 32-bit word is modelled as the set of its set bit positions           *)
(* (a subset of 0..31), so that shifts, masks and truncation to 32 bits    *)
(* are computed exactly as the C code computes them on u32.                *)
(***************************************************************************)
EXTENDS Integers, Sequences, FiniteSets, TLC

VARIABLES
    \* one call of write_header on a two-word buffer
    hdr_pc,       \* "called" (arguments chosen), "done" (returned)
    hdr_value,    \* u32 value argument
    hdr_offset,   \* bit offset argument
    hdr_len,      \* bit length argument
    hdr_old,      \* buffer content before the call
    hdr_buf,      \* buffer content
    \* one call of assemble_hw_rps
    rps_pc,       \* "input" (controls being staged), "done" (returned)
    rps_edits,    \* number of control fields staged so far
    dec_param,    \* struct v4l2_ctrl_h264_decode_params: dpb and the lists
    hw_rps,       \* priv_tbl->rps as 64 little-endian u32 words
    rps_log,      \* the write_header calls of the second pass, in order
    \* the job life cycle of one device (struct rockchip_vpu_dev)
    curr_ctx,     \* m2m current context, v4l2_m2m_get_curr_priv(); 0 is NULL
    cur_job,      \* number of the job curr_ctx is running; 0 is none
    njobs,        \* jobs dispatched through device_run so far
    nqueued,      \* buffer pairs queued by userspace so far
    bufs,         \* per context: queued (source, destination) buffer pairs
    run_pc,       \* position of the thread inside device_run / the run hook
    run_ctx,      \* device_run's priv argument
    run_job,      \* the job that thread was dispatched for
    job_ctrls,    \* per job: the controls rockchip_vpu_get_ctrl found, or Unset
    steps,        \* per job: the effects of the run hook, in order
    wd_pending,   \* delayed work vpu->watchdog_work is pending
    wd_pc,        \* position of the work function rockchip_vpu_watchdog
    wd_ctx,       \* its local ctx
    hw_irq,       \* the decoder has a completion interrupt to deliver
    spurious,     \* interrupts delivered without a completion
    irq_pc,       \* position of the interrupt handler in rockchip_vpu_irq_done
    irq_ctx,      \* its local ctx
    irq_args,     \* its bytesused and result arguments
    resets,       \* per job: codec_ops->reset calls made while it was current
    finishes,     \* per job: the rockchip_vpu_job_finish calls made for it
    stray,        \* rockchip_vpu_job_finish calls for a context that is not current
    clk_count,    \* clk_bulk_enable successes minus clk_bulk_disable calls
    pm_count      \* pm_runtime_get_sync calls minus pm_runtime_put_autosuspend calls

VARIABLES
    \* the per-frame pipeline of rk3399_vdec_h264_run on one auxiliary buffer
    frm_pc,       \* next step of the pipeline, "idle" between frames
    frm_n,        \* frames started so far
    frm_in,       \* the inputs of the frame: controls, format, addresses
    frm_base,     \* what the auxiliary buffer held when it was allocated
    frm_prev,     \* param_set before the last assemble_hw_pps call
    scaling_list, \* priv_tbl->scaling_list, one byte per index
    scl_log,      \* the byte offsets reorder_scaling_list stored to, in order
    param_set,    \* priv_tbl->param_set as u32 words, 8 per record
    cabac_table,  \* priv_tbl->cabac_table (what it was filled with)
    err_info,     \* priv_tbl->err_info (what it was filled with)
    regs_log,     \* the vdpu_write_relaxed calls of config_regs, in order
    ref_log       \* the rockchip_vpu_get_ref calls of config_regs, in order

VARIABLES
    \* streaming state of the contexts and their auxiliary buffers
    streaming,    \* per context and queue: vb2 has started the queue
    aux_buf,      \* per context: "none", "allocated", "freed" (priv.cpu)
    aux_calls     \* per context: the codec_ops->init / exit calls, in order

VARIABLES
    \* one call of rockchip_vpu_job_finish, looked at from its buffers
    fin_pc,       \* "call" before the call, "done" after it
    fin_in,       \* the caller, its arguments and the context it names
    fin_out       \* what became of the source and the destination buffer

VARIABLES
    \* DRM bridges and the bridge chains of the encoders
    bridge_chain, \* per encoder: encoder->bridge_chain, first to last
    b_dev,        \* per bridge: bridge->dev (NULL, or the encoder's device)
    b_encoder,    \* per bridge: bridge->encoder
    b_node,       \* per bridge: chain_node is "unlinked", on a "chain", or "poison"
    b_obj,        \* per bridge: bridge->base is an initialised private object
    op            \* the last call: its arguments, hook calls and result

VARIABLES
    \* drm_atomic_bridge_chain_check on the chain of an encoder
    fmt_drv,      \* per bridge: the driver behind its atomic hooks
    conn_fmts,    \* conn->display_info.bus_formats
    bus_cfg,      \* per bridge: input_bus_cfg.fmt and output_bus_cfg.fmt
                  \* of its state in the atomic state
    chk           \* the last check: its arguments, hook calls and result

VARIABLES
    \* the formats of one context (one open file of the video device)
    fmt_ctx,      \* "closed", or the device opened: "encoder" or "decoder"
    formats,      \* the format table rockchip_vpu_get_formats returns
    vpu_src_fmt,  \* ctx->vpu_src_fmt: an entry of formats, or NULL
    vpu_dst_fmt,  \* ctx->vpu_dst_fmt: an entry of formats, or NULL
    pix_fmt,      \* pixelformat of ctx->src_fmt and of ctx->dst_fmt
    vq,           \* per queue: buffers are allocated, the queue streams
    codec_ops,    \* the index into variant->codec_ops start_streaming used
    ioctl         \* the last format call: its arguments and its result

rpsVars == <<rps_pc, rps_edits, dec_param, hw_rps, rps_log>>

jobVars == <<curr_ctx, cur_job, njobs, nqueued, bufs, run_pc, run_ctx, run_job,
             job_ctrls, steps, wd_pending, wd_pc, wd_ctx, hw_irq, spurious,
             irq_pc, irq_ctx, irq_args, resets, finishes, stray,
             clk_count, pm_count>>

hdrVars == <<hdr_pc, hdr_value, hdr_offset, hdr_len, hdr_old, hdr_buf>>

frmVars == <<frm_pc, frm_n, frm_in, frm_base, frm_prev, scaling_list, scl_log,
             param_set, cabac_table, err_info, regs_log, ref_log>>

strmVars == <<streaming, aux_buf, aux_calls>>

finVars == <<fin_pc, fin_in, fin_out>>

brgVars == <<bridge_chain, b_dev, b_encoder, b_node, b_obj, op>>

chkVars == <<fmt_drv, conn_fmts, bus_cfg, chk>>

fmtVars == <<fmt_ctx, formats, vpu_src_fmt, vpu_dst_fmt, pix_fmt, vq, codec_ops,
             ioctl>>

vars == <<hdrVars, rpsVars, jobVars, frmVars, strmVars, finVars, brgVars,
          chkVars, fmtVars>>

(* ---------------------------------------------------------------------- *)
(* u32 arithmetic on bit sets                                              *)
(* ---------------------------------------------------------------------- *)

WordBits == 0..31

Zero32 == {}

Ones32 == WordBits

\* x << n on u32 (bits shifted past bit 31 are lost), 0 <= n <= 31
Shl(x, n) == {b + n : b \in x} \cap WordBits

\* x >> n on u32, 0 <= n <= 31
Shr(x, n) == {b - n : b \in {c \in x : c >= n}}

\* ~x on u32
Not32(x) == WordBits \ x

MinBit(x) == CHOOSE m \in x : \A b \in x : m <= b

\* x - 1 on 32 bits with wrap-around (0 - 1 = 0xffffffff)
Dec32(x) == IF x = {} THEN Ones32
            ELSE (x \ {MinBit(x)}) \cup {b \in WordBits : b < MinBit(x)}

\* the outcomes of the int expression (1 << 32), which C leaves undefined:
\* the shift count is taken modulo 32 (x86, arm64: result 1) or the bit is
\* shifted out (arm32: result 0)
Shl32Outcomes == {{0}, {}}

\* (1 << n) as the code evaluates it; ub is the outcome picked for n = 32
OneShl(n, ub) == IF n < 32 THEN {n} ELSE ub

\* the low w bits of the natural number n < 2^31 as a word
ToBits(n, w) == {b \in 0..(w - 1) : b < 31 /\ (n \div (2 ^ b)) % 2 = 1}

RECURSIVE FromBits(_)
\* the natural number a set of bit positions (all < 31) stands for
FromBits(x) == IF x = {} THEN 0
               ELSE LET b == CHOOSE c \in x : TRUE
                    IN  2 ^ b + FromBits(x \ {b})

\* the low and the high half of a word as numbers below 2^16
Lo16(x) == FromBits({b \in x : b < 16})

Hi16(x) == FromBits(Shr(x, 16))

\* the word with the given halves
Word16(hi, lo) == ToBits(lo % 65536, 16) \cup Shl(ToBits(hi % 65536, 16), 16)

\* x + y on u32 (wraps at 2^32)
Add32(x, y) ==
    LET lo == Lo16(x) + Lo16(y)
    IN  Word16(Hi16(x) + Hi16(y) + (lo \div 65536), lo)

\* (a * b) % 2^16 for a, b below 2^16, without leaving 31 bits
MulMod16(a, b) == ((a % 256) * b + (((a \div 256) * b) % 256) * 256) % 65536

\* x * y on u32 (wraps at 2^32)
Mul32(x, y) ==
    LET xl == Lo16(x)
        yl == Lo16(y)
        \* xl * yl as a word: (xl / 256) * yl * 256 + (xl % 256) * yl
        ll == Add32(Shl(ToBits((xl \div 256) * yl, 32), 8),
                    ToBits((xl % 256) * yl, 32))
        \* the cross terms only reach the high half
        hx == (MulMod16(Hi16(x), yl) + MulMod16(xl, Hi16(y))) % 65536
    IN  Add32(ll, Word16(hx, 0))

\* an int converted to u32: two's complement for a negative one
ToU32(n) == IF n >= 0 THEN ToBits(n, 32) ELSE Not32(ToBits(-n - 1, 32))

(* ---------------------------------------------------------------------- *)
(* write_header                                                            *)
(* ---------------------------------------------------------------------- *)

\* void write_header(u32 value, u32 *buffer, u32 offset, u32 len)
\* buffer is a function from word indices to words; the result is the
\* buffer after the call.  ub is the outcome of (1 << 32), used only when
\* a mask is built for a 32-bit length.
write_header(value, buffer, offset, len, ub) ==
    LET word == offset \div 32
        bit  == offset % 32
    IN  IF len + bit > 32
        THEN LET len1 == 32 - bit
                 len2 == len + bit - 32
                 \* buffer[word] &= ~(((1 << len1) - 1) << bit);
                 \* buffer[word] |= value << bit;
                 w0 == (buffer[word] \cap Not32(Shl(Dec32(OneShl(len1, ub)), bit)))
                           \cup Shl(value, bit)
                 \* value >>= (32 - bit);
                 v2 == Shr(value, 32 - bit)
                 \* buffer[word + 1] &= ~((1 << len2) - 1);
                 \* buffer[word + 1] |= value;
                 w1 == (buffer[word + 1] \cap Not32(Dec32(OneShl(len2, ub))))
                           \cup v2
             IN  [buffer EXCEPT ![word] = w0, ![word + 1] = w1]
        ELSE \* buffer[word] &= ~(((1 << len) - 1) << bit);
             \* buffer[word] |= value << bit;
             [buffer EXCEPT ![word] =
                 (buffer[word] \cap Not32(Shl(Dec32(OneShl(len, ub)), bit)))
                     \cup Shl(value, bit)]

\* F applied to x, with x computed first: the iterations of a loop are
\* evaluated one after the other, each on the finished result of the last
Then(x, F(_)) == CHOOSE r \in {F(v) : v \in {x}} : TRUE

\* bit n of the little-endian stream of 32-bit words
StreamBit(buffer, n) == (n % 32) \in buffer[n \div 32]

\* the len-bit field at stream position offset, as a word
ReadField(buffer, offset, len) ==
    {k \in 0..(len - 1) : StreamBit(buffer, offset + k)}

(* ---------------------------------------------------------------------- *)
(* assemble_hw_rps                                                         *)
(* ---------------------------------------------------------------------- *)

\* ARRAY_SIZE(dec_param->dpb)
DpbSize == 16

\* length of ref_pic_list_p0 / _b0 / _b1
RefListLen == 32

\* the three lists walked by the second pass: 0 = p0, 1 = b0, 2 = b1
NumRefLists == 3

\* RKV_RPS_SIZE in bytes, and the same region in u32 words
RKV_RPS_SIZE == 128 + 128

RpsWords == 0..((RKV_RPS_SIZE \div 4) - 1)

\* bit offset and length of the DPB info field of position i in list j
DPB_INFO_OFF(i, j) == 288 + j * 32 * 7 + i * 7

DPB_INFO_LEN == 5

\* memset(hw_rps, 0, RKV_RPS_SIZE)
rps_memset == [w \in RpsWords |-> Zero32]

\* the pic_num stored for a slot, with no sentinel for inactive slots
rps_pic_num_nosentinel(dpb, i) == dpb[i].pic_num

\* (dpb[i].flags & ACTIVE) ? dpb[i].pic_num : 0xff
rps_pic_num(dpb, i) == IF dpb[i].active THEN dpb[i].pic_num ELSE 255

\* p[i] = v for u16 *p = (u16 *)hw_rps: the little-endian u16 number i
rps_store_u16(buf, i, v) ==
    LET word == i \div 2
        bit  == 16 * (i % 2)
    IN  [buf EXCEPT ![word] =
            (buf[word] \ {b \in WordBits : b >= bit /\ b < bit + 16})
                \cup Shl(ToBits(v, 16), bit)]

RECURSIVE rps_first_pass(_, _, _)
\* for (i = 0; i < 16; i++) p[i] = ...
rps_first_pass(dpb, i, buf) ==
    IF i >= DpbSize THEN buf
    ELSE Then(rps_store_u16(buf, i, rps_pic_num(dpb, i)),
              LAMBDA b : rps_first_pass(dpb, i + 1, b))

\* the switch (j): the index stored at position i of list j
rps_list_idx(dp, j, i) ==
    CASE j = 0 -> dp.ref_pic_list_p0[i]
      [] j = 1 -> dp.ref_pic_list_b0[i]
      [] j = 2 -> dp.ref_pic_list_b1[i]

\* the valid bit taken from the slot at the list position, not at the index
rps_dpb_valid_bypos(dpb, idx, i) == IF dpb[i % DpbSize].active THEN 1 ELSE 0

\* dpb_valid = !!(dpb[idx].flags & V4L2_H264_DPB_ENTRY_FLAG_ACTIVE)
rps_dpb_valid(dpb, idx, i) == IF dpb[idx].active THEN 1 ELSE 0

\* idx | dpb_valid << 4
rps_field_value(dpb, idx, i) == idx + 16 * rps_dpb_valid(dpb, idx, i)

\* one iteration of the inner loop: the state after position i of list j
rps_entry(dp, j, i, st) ==
    LET idx == rps_list_idx(dp, j, i)
    IN  [buf |-> write_header(ToBits(rps_field_value(dp.dpb, idx, i), 32),
                              st.buf, DPB_INFO_OFF(i, j), DPB_INFO_LEN, st.ub),
         ub  |-> st.ub,
         log |-> Append(st.log, [list |-> j, pos |-> i, idx |-> idx,
                                 value |-> rps_field_value(dp.dpb, idx, i)])]

RECURSIVE rps_list_pass_break(_, _, _, _)
\* the inner loop leaving the list at its first out-of-range index
rps_list_pass_break(dp, j, i, st) ==
    IF i >= RefListLen THEN st
    ELSE IF rps_list_idx(dp, j, i) >= DpbSize
         THEN st
         ELSE Then(rps_entry(dp, j, i, st),
                   LAMBDA s : rps_list_pass_break(dp, j, i + 1, s))

RECURSIVE rps_list_pass(_, _, _, _)
\* for (i = 0; i < 32; i++) { ...; if (idx >= ARRAY_SIZE(dec_param->dpb))
\* continue; ...; write_header(...); } for list j, from position i on;
\* st carries the buffer and the log of the write_header calls made
rps_list_pass(dp, j, i, st) ==
    IF i >= RefListLen THEN st
    ELSE IF rps_list_idx(dp, j, i) >= DpbSize
         THEN rps_list_pass(dp, j, i + 1, st)
         ELSE Then(rps_entry(dp, j, i, st),
                   LAMBDA s : rps_list_pass(dp, j, i + 1, s))

\* for (j = 0; j < 3; j++): the three lists one after the other
rps_second_pass(dp, st) ==
    Then(Then(Then(st, LAMBDA s : rps_list_pass(dp, 0, 0, s)),
              LAMBDA s : rps_list_pass(dp, 1, 0, s)),
         LAMBDA s : rps_list_pass(dp, 2, 0, s))

\* assemble_hw_rps(ctx, dec_param, slice_param): the RPS region and the
\* write_header calls made, whatever the region held before
assemble_hw_rps(dp, shl32) ==
    rps_second_pass(dp,
        [buf |-> rps_first_pass(dp.dpb, 0, rps_memset), ub |-> shl32,
         log |-> <<>>])

(* ---------------------------------------------------------------------- *)
(* Inputs of the write_header specification                                *)
(* ---------------------------------------------------------------------- *)

\* words of the buffer handed to write_header in this specification
HdrWords == 0..1

\* prior buffer contents: all clear, all set, and two mixed patterns
HdrOldContents ==
    { [w \in HdrWords |-> Zero32],
      [w \in HdrWords |-> Ones32],
      [w \in HdrWords |-> {b \in WordBits : b % 2 = w}],
      [w \in HdrWords |-> {b \in WordBits : b % 3 = 0}] }

\* values that fit in len bits
HdrMaskedValues(len) ==
    { Zero32, 0..(len - 1), {0}, {len - 1},
      {b \in 0..(len - 1) : b % 2 = 1} }

\* values with bits at or above len, such as a sign-extended negative s8
HdrWideValues(len) ==
    { Ones32, {31}, {0, 31}, {b \in WordBits : b >= len} }

(* ---------------------------------------------------------------------- *)
(* Inputs of the assemble_hw_rps specification                             *)
(* ---------------------------------------------------------------------- *)

\* number of control fields userspace sets away from the defaults
MaxEdits == 2

\* DPB slots, list positions, list entries and pic_nums that are staged
EditSlots == {0, 15}

EditPositions == {0, 31}

EditIndices == {0, 15, 16}

EditPicNums == {0, 3, 65535}

\* decode parameters with an empty DPB and empty reference lists
RpsBlankParams ==
    [dpb |-> [i \in 0..(DpbSize - 1) |-> [active |-> FALSE, pic_num |-> 0]],
     ref_pic_list_p0 |-> [i \in 0..(RefListLen - 1) |-> 255],
     ref_pic_list_b0 |-> [i \in 0..(RefListLen - 1) |-> 255],
     ref_pic_list_b1 |-> [i \in 0..(RefListLen - 1) |-> 255]]

\* a P frame with one reference: slot 0 active with pic_num 3, P0 = [0, 0xff...]
RpsPFrameParams ==
    [RpsBlankParams EXCEPT !.dpb[0] = [active |-> TRUE, pic_num |-> 3],
                           !.ref_pic_list_p0[0] = 0]

\* the decode parameters userspace starts from
RpsBaseParams == {RpsBlankParams, RpsPFrameParams}

\* contents the RPS region may hold from an earlier frame
RpsOldContents ==
    { [w \in RpsWords |-> Zero32], [w \in RpsWords |-> Ones32] }

(* ---------------------------------------------------------------------- *)
(* assemble_hw_pps                                                         *)
(* ---------------------------------------------------------------------- *)

\* struct hw_sps_pps_packet param_set[256], u8 info[32] each: 8 words a record
NumParamSets == 256

ParamSetWords == 0..(NumParamSets * 8 - 1)

\* RKV_CABAC_INIT_BUFFER_SIZE: offsetof(priv_tbl, scaling_list)
RKV_CABAC_INIT_BUFFER_SIZE == 3680 + 128

\* bit offset and length of the fields of a record, <<_OFF, _LEN>> per field
PpsLayout ==
    [CHROMA_FORMAT_IDC |-> <<13, 2>>,
     BIT_DEPTH_LUMA |-> <<15, 3>>,
     BIT_DEPTH_CHROMA |-> <<18, 3>>,
     QPPRIME_Y_ZERO_TRANSFORM_BYPASS_FLAG |-> <<21, 1>>,
     LOG2_MAX_FRAME_NUM_MINUS4 |-> <<22, 4>>,
     MAX_NUM_REF_FRAMES |-> <<26, 5>>,
     PIC_ORDER_CNT_TYPE |-> <<31, 2>>,
     LOG2_MAX_PIC_ORDER_CNT_LSB_MINUS4 |-> <<33, 4>>,
     DELTA_PIC_ORDER_ALWAYS_ZERO_FLAG |-> <<37, 1>>,
     PIC_WIDTH_IN_MBS |-> <<38, 9>>,
     PIC_HEIGHT_IN_MBS |-> <<47, 9>>,
     FRAME_MBS_ONLY_FLAG |-> <<56, 1>>,
     MB_ADAPTIVE_FRAME_FIELD_FLAG |-> <<57, 1>>,
     DIRECT_8X8_INFERENCE_FLAG |-> <<58, 1>>,
     ENTROPY_CODING_MODE_FLAG |-> <<141, 1>>,
     BOTTOM_FIELD_PIC_ORDER_IN_FRAME_PRESENT_FLAG |-> <<142, 1>>,
     NUM_REF_IDX_L0_DEFAULT_ACTIVE_MINUS1 |-> <<143, 5>>,
     NUM_REF_IDX_L1_DEFAULT_ACTIVE_MINUS1 |-> <<148, 5>>,
     WEIGHTED_PRED_FLAG |-> <<153, 1>>,
     WEIGHTED_BIPRED_IDC |-> <<154, 2>>,
     PIC_INIT_QP_MINUS26 |-> <<156, 7>>,
     PIC_INIT_QS_MINUS26 |-> <<163, 6>>,
     CHROMA_QP_INDEX_OFFSET |-> <<169, 5>>,
     DEBLOCKING_FILTER_CONTROL_PRESENT_FLAG |-> <<174, 1>>,
     CONSTRAINED_INTRA_PRED_FLAG |-> <<175, 1>>,
     REDUNDANT_PIC_CNT_PRESENT |-> <<176, 1>>,
     TRANSFORM_8X8_MODE_FLAG |-> <<177, 1>>,
     SECOND_CHROMA_QP_INDEX_OFFSET |-> <<178, 5>>,
     SCALING_LIST_ENABLE_FLAG |-> <<183, 1>>,
     SCALING_LIST_ADDRESS |-> <<184, 32>>]

IS_LONG_TERM_OFF(i) == 216 + i

IS_LONG_TERM_LEN == 1

\* (flags & FLAG) >> its bit position: 1 if the flag is set, 0 if not
FlagBit(flags, name) == IF name \in flags THEN 1 ELSE 0

\* the record of another id than the one asked for: always the first one
pps_record_base_first(id) == 0

\* hw_ps = &priv_tbl->param_set[pps->pic_parameter_set_id], as the bit
\* offset of the record in the table
pps_record_base(id) == id * 256

\* the record left as it is
pps_memset_skipped(ps, id) == ps

\* memset(hw_ps, 0, sizeof(*hw_ps))
pps_memset(ps, id) ==
    [w \in DOMAIN ps |->
        IF w >= pps_record_base(id) \div 32 /\ w < pps_record_base(id) \div 32 + 8
        THEN Zero32 ELSE ps[w]]

\* the WRITE_PPS calls of assemble_hw_pps in source order: <<value, field>>
pps_writes(sps, pps, scaling_list_address) ==
    << <<ToU32(sps.chroma_format_idc), "CHROMA_FORMAT_IDC">>,
       <<ToU32(sps.bit_depth_luma_minus8 + 8), "BIT_DEPTH_LUMA">>,
       <<ToU32(sps.bit_depth_chroma_minus8 + 8), "BIT_DEPTH_CHROMA">>,
       <<ToU32(0), "QPPRIME_Y_ZERO_TRANSFORM_BYPASS_FLAG">>,
       <<ToU32(sps.log2_max_frame_num_minus4), "LOG2_MAX_FRAME_NUM_MINUS4">>,
       <<ToU32(sps.max_num_ref_frames), "MAX_NUM_REF_FRAMES">>,
       <<ToU32(sps.pic_order_cnt_type), "PIC_ORDER_CNT_TYPE">>,
       <<ToU32(sps.log2_max_pic_order_cnt_lsb_minus4),
         "LOG2_MAX_PIC_ORDER_CNT_LSB_MINUS4">>,
       <<ToU32(FlagBit(sps.flags, "DELTA_PIC_ORDER_ALWAYS_ZERO")),
         "DELTA_PIC_ORDER_ALWAYS_ZERO_FLAG">>,
       <<ToU32(sps.pic_width_in_mbs_minus1 + 1), "PIC_WIDTH_IN_MBS">>,
       <<ToU32(sps.pic_height_in_map_units_minus1 + 1), "PIC_HEIGHT_IN_MBS">>,
       <<ToU32(FlagBit(sps.flags, "FRAME_MBS_ONLY")), "FRAME_MBS_ONLY_FLAG">>,
       <<ToU32(FlagBit(sps.flags, "MB_ADAPTIVE_FRAME_FIELD")),
         "MB_ADAPTIVE_FRAME_FIELD_FLAG">>,
       <<ToU32(FlagBit(sps.flags, "DIRECT_8X8_INFERENCE")),
         "DIRECT_8X8_INFERENCE_FLAG">>,
       <<ToU32(FlagBit(pps.flags, "ENTROPY_CODING_MODE")),
         "ENTROPY_CODING_MODE_FLAG">>,
       <<ToU32(FlagBit(pps.flags, "BOTTOM_FIELD_PIC_ORDER_IN_FRAME_PRESENT")),
         "BOTTOM_FIELD_PIC_ORDER_IN_FRAME_PRESENT_FLAG">>,
       <<ToU32(pps.num_ref_idx_l0_default_active_minus1),
         "NUM_REF_IDX_L0_DEFAULT_ACTIVE_MINUS1">>,
       <<ToU32(pps.num_ref_idx_l1_default_active_minus1),
         "NUM_REF_IDX_L1_DEFAULT_ACTIVE_MINUS1">>,
       <<ToU32(FlagBit(pps.flags, "WEIGHTED_PRED")), "WEIGHTED_PRED_FLAG">>,
       <<ToU32(pps.weighted_bipred_idc), "WEIGHTED_BIPRED_IDC">>,
       <<ToU32(pps.pic_init_qp_minus26), "PIC_INIT_QP_MINUS26">>,
       <<ToU32(pps.pic_init_qs_minus26), "PIC_INIT_QS_MINUS26">>,
       <<ToU32(pps.chroma_qp_index_offset), "CHROMA_QP_INDEX_OFFSET">>,
       <<ToU32(FlagBit(pps.flags, "DEBLOCKING_FILTER_CONTROL_PRESENT")),
         "DEBLOCKING_FILTER_CONTROL_PRESENT_FLAG">>,
       <<ToU32(FlagBit(pps.flags, "CONSTRAINED_INTRA_PRED")),
         "CONSTRAINED_INTRA_PRED_FLAG">>,
       <<ToU32(FlagBit(pps.flags, "REDUNDANT_PIC_CNT_PRESENT")),
         "REDUNDANT_PIC_CNT_PRESENT">>,
       <<ToU32(FlagBit(pps.flags, "TRANSFORM_8X8_MODE")),
         "TRANSFORM_8X8_MODE_FLAG">>,
       <<ToU32(pps.second_chroma_qp_index_offset),
         "SECOND_CHROMA_QP_INDEX_OFFSET">>,
       \* always use the matrix sent from userspace
       <<ToU32(1), "SCALING_LIST_ENABLE_FLAG">>,
       <<scaling_list_address, "SCALING_LIST_ADDRESS">> >>

RECURSIVE pps_write_fields(_, _, _, _, _)
\* WRITE_PPS(value, field) for the writes from number n on; hw_ps is the
\* record starting at bit offset base of the table ps
pps_write_fields(ps, base, writes, n, shl32) ==
    IF n > Len(writes) THEN ps
    ELSE Then(write_header(writes[n][1], ps,
                           base + PpsLayout[writes[n][2]][1],
                           PpsLayout[writes[n][2]][2], shl32),
              LAMBDA p : pps_write_fields(p, base, writes, n + 1, shl32))

RECURSIVE pps_write_long_term(_, _, _, _, _)
\* for (i = 0; i < 16; i++) write_header(LONG_TERM ? 1 : 0, hw_ps,
\* IS_LONG_TERM_OFF(i), IS_LONG_TERM_LEN)
pps_write_long_term(ps, base, dpb, i, shl32) ==
    IF i >= 16 THEN ps
    ELSE Then(write_header(ToU32(IF dpb[i].long_term THEN 1 ELSE 0), ps,
                           base + IS_LONG_TERM_OFF(i), IS_LONG_TERM_LEN, shl32),
              LAMBDA p : pps_write_long_term(p, base, dpb, i + 1, shl32))

\* scaling_list_address = ctx->h264_dec.priv.dma + scaling_distance, as the
\* u32 that reaches write_header
pps_scaling_list_address(dma) == Add32(dma, ToU32(RKV_CABAC_INIT_BUFFER_SIZE))

\* assemble_hw_pps(ctx, sps, pps, dpb): the table param_set after the call
assemble_hw_pps(ps, sps, pps, dpb, dma, shl32) ==
    LET id   == pps.pic_parameter_set_id
        base == pps_record_base(id)
    IN  Then(Then(pps_memset(ps, id),
                  LAMBDA p : pps_write_fields(p, base,
                                 pps_writes(sps, pps, pps_scaling_list_address(dma)),
                                 1, shl32)),
             LAMBDA p : pps_write_long_term(p, base, dpb, 0, shl32))

(* ---------------------------------------------------------------------- *)
(* reorder_scaling_list                                                    *)
(* ---------------------------------------------------------------------- *)

\* RKV_SCALING_LIST_SIZE: bytes of priv_tbl->scaling_list
RKV_SCALING_LIST_SIZE == 6 * 16 + 6 * 64 + 128

ScalingBytes == 0..(RKV_SCALING_LIST_SIZE - 1)

\* the 4x4 table with the entries of positions 2 and 3 both 4
zig_zag_4x4_dup ==
    << 0, 1, 4, 4, 5, 2, 3, 6, 9, 12, 13, 10, 7, 11, 14, 15 >>

\* static const u32 zig_zag_4x4[16]; position j of the C array is
\* element j + 1 of the sequence
zig_zag_4x4 ==
    << 0, 1, 4, 8, 5, 2, 3, 6, 9, 12, 13, 10, 7, 11, 14, 15 >>

\* static const u32 zig_zag_8x8[64]
zig_zag_8x8 ==
    <<  0,  1,  8, 16,  9,  2,  3, 10, 17, 24, 32, 25, 18, 11,  4,  5,
       12, 19, 26, 33, 40, 48, 41, 34, 27, 20, 13,  6,  7, 14, 21, 28,
       35, 42, 49, 56, 57, 50, 43, 36, 29, 22, 15, 23, 30, 37, 44, 51,
       58, 59, 52, 45, 38, 31, 39, 46, 53, 60, 61, 54, 47, 55, 62, 63 >>

\* the store with source and destination index exchanged
scl_store_swapped(st, dst, zz, src, j) ==
    [buf |-> [st.buf EXCEPT ![dst + j] = src[zz[j + 1]]],
     log |-> Append(st.log, dst + j)]

\* dst[zig_zag[j]] = src[j]; st carries the region and the offsets stored to
scl_store(st, dst, zz, src, j) ==
    [buf |-> [st.buf EXCEPT ![dst + zz[j + 1]] = src[j]],
     log |-> Append(st.log, dst + zz[j + 1])]

RECURSIVE scl_list(_, _, _, _, _, _)
\* for (j = lo; j < hi; ++j) dst[zig_zag[j]] = src[j]; the iterations run
\* in order, the first half of the range before the second
scl_list(st, dst, zz, src, lo, hi) ==
    IF lo >= hi THEN st
    ELSE IF hi = lo + 1 THEN scl_store(st, dst, zz, src, lo)
    ELSE Then(scl_list(st, dst, zz, src, lo, (lo + hi) \div 2),
              LAMBDA s : scl_list(s, dst, zz, src, (lo + hi) \div 2, hi))

RECURSIVE scl_pass(_, _, _, _, _)
\* for (i = 0; i < num_list; ++i) { ...; src += list_len; dst += list_len; }
\* lists is scaling->scaling_list_NxN, dst the offset the pass started at
scl_pass(st, dst, zz, lists, i) ==
    IF i >= 6 THEN st
    ELSE Then(scl_list(st, dst + i * Len(zz), zz, lists[i], 0, Len(zz)),
              LAMBDA s : scl_pass(s, dst, zz, lists, i + 1))

\* the 8x8 pass left out when every 8x8 list is flat (all 16)
scl_pass_8x8_flat_skipped(st, scaling) ==
    IF \A k \in 0..5, j \in 0..63 : scaling.scaling_list_8x8[k][j] = 16
    THEN st
    ELSE scl_pass(st, 6 * 16, zig_zag_8x8, scaling.scaling_list_8x8, 0)

\* the second loop: dst has advanced by 6 * 16 bytes
scl_pass_8x8(st, scaling) ==
    scl_pass(st, 6 * 16, zig_zag_8x8, scaling.scaling_list_8x8, 0)

\* the first loop: dst = tbl->scaling_list
scl_pass_4x4(st, scaling) ==
    scl_pass(st, 0, zig_zag_4x4, scaling.scaling_list_4x4, 0)

\* reorder_scaling_list(ctx, scaling): the region after the call and the
\* offsets stored to, in order
reorder_scaling_list(region, scaling) ==
    Then(Then([buf |-> region, log |-> <<>>],
              LAMBDA s : scl_pass_4x4(s, scaling)),
         LAMBDA s : scl_pass_8x8(s, scaling))

(* ---------------------------------------------------------------------- *)
(* config_regs                                                             *)
(* ---------------------------------------------------------------------- *)

\* offsetof(struct rk3399_vdec_h264_priv_tbl, ...) of the five regions
OffsetofCabacTable == 0

OffsetofScalingList == RKV_CABAC_INIT_BUFFER_SIZE

OffsetofRps == OffsetofScalingList + RKV_SCALING_LIST_SIZE

OffsetofParamSet == OffsetofRps + RKV_RPS_SIZE

OffsetofErrInfo == OffsetofParamSet + NumParamSets * 32

\* one vdpu_write_relaxed(vpu, val, reg); n tells the registers of a
\* table apart and is 0 for a single register
RegWrite(reg, n, val) == [reg |-> <<reg, n>>, val |-> val]

\* the vertical stride taken as the height itself
cfg_round_up_16_none(x) == x

\* round_up(x, 16) on u32: ((x - 1) | 15) + 1
cfg_round_up_16(x) == Add32(Dec32(x) \cup {0, 1, 2, 3}, {0})

\* the horizontal stride with the division made before the multiplication
cfg_hor_virstride_divfirst(sps, width) ==
    Mul32(ToU32(sps.bit_depth_luma_minus8 + 8), Shr(width, 3))

\* hor_virstride = (sps->bit_depth_luma_minus8 + 8) * ctx->dst_fmt.width / 8
cfg_hor_virstride(sps, width) ==
    Shr(Mul32(ToU32(sps.bit_depth_luma_minus8 + 8), width), 3)

\* u32 yuv_virstride = 0; if (chroma_format_idc == 0) ... else if (== 1)
\* ... else if (== 2) ...
cfg_yuv_virstride(sps, y_virstride) ==
    IF sps.chroma_format_idc = 0 THEN y_virstride
    ELSE IF sps.chroma_format_idc = 1
         THEN Add32(Zero32, Add32(y_virstride, Shr(y_virstride, 1)))
    ELSE IF sps.chroma_format_idc = 2
         THEN Add32(Zero32, Mul32(ToU32(2), y_virstride))
    ELSE Zero32

\* the strides config_regs computes for frame inputs in
cfg_strides(in) ==
    LET hor == cfg_hor_virstride(in.sps, in.dst_fmt.width)
        ver == cfg_round_up_16(in.dst_fmt.height)
        y   == Mul32(hor, ver)
    IN  [hor_virstride |-> hor, ver_virstride |-> ver, y_virstride |-> y,
         yuv_virstride |-> cfg_yuv_virstride(in.sps, y)]

\* rockchip_vpu_get_ref(dst_queue, ts): the address of the capture buffer
\* with that timestamp, 0 if there is none
rockchip_vpu_get_ref(store, ts) == IF ts \in DOMAIN store THEN store[ts] ELSE 0

\* the reference address with no substitute for a missing picture
cfg_ref_addr_nofallback(in, i) ==
    IF in.dec_param.dpb[i].active
    THEN rockchip_vpu_get_ref(in.store, in.dec_param.dpb[i].reference_ts)
    ELSE 0

\* dma_addr_t ref_addr = 0; if (ACTIVE) ref_addr = rockchip_vpu_get_ref();
\* if (!ref_addr) ref_addr = vb2_dma_contig_plane_dma_addr(dst_buf, 0);
cfg_ref_addr(in, i) ==
    LET looked == IF in.dec_param.dpb[i].active
                  THEN rockchip_vpu_get_ref(in.store,
                                            in.dec_param.dpb[i].reference_ts)
                  ELSE 0
    IN  IF looked = 0 THEN in.dst_addr ELSE looked

\* the rockchip_vpu_get_ref calls of slot i
cfg_ref_lookups(in, i) ==
    IF in.dec_param.dpb[i].active
    THEN << in.dec_param.dpb[i].reference_ts >>
    ELSE << >>

\* the register writes of slot i of the reference loop
cfg_ref_slot(in, i) ==
    << RegWrite("poc_reg_tbl_top_field", i,
                in.dec_param.dpb[i].top_field_order_cnt),
       RegWrite("poc_reg_tbl_bottom_field", i,
                in.dec_param.dpb[i].bottom_field_order_cnt),
       RegWrite(IF i < 15 THEN "RKVDEC_REG_H264_BASE_REFER"
                          ELSE "RKVDEC_REG_H264_BASE_REFER15", i,
                [addr  |-> cfg_ref_addr(in, i),
                 flags |-> {"RKVDEC_COLMV_USED_FLAG_REF",
                            "RKVDEC_TOPFIELD_USED_REF",
                            "RKVDEC_BOTFIELD_USED_REF"}]) >>

RECURSIVE cfg_ref_loop(_, _, _)
\* for (i = 0; i < 16; i++) { ... }: the writes and lookups made, in order
cfg_ref_loop(in, i, st) ==
    IF i >= 16 THEN st
    ELSE Then([log  |-> st.log \o cfg_ref_slot(in, i),
               refs |-> st.refs \o cfg_ref_lookups(in, i)],
              LAMBDA s : cfg_ref_loop(in, i + 1, s))

\* config_regs(ctx, dec_param, sps, src_buf, dst_buf): the register writes
\* in order (log) and the picture-store lookups in order (refs)
config_regs(in) ==
    LET v == cfg_strides(in)
        head ==
          << RegWrite("RKVDEC_REG_SYSCTRL", 0, [RKVDEC_MODE |-> "RKVDEC_MODE_H264"]),
             RegWrite("RKVDEC_REG_PICPAR", 0,
                      [Y_HOR_VIRSTRIDE  |-> Shr(v.hor_virstride, 4),
                       UV_HOR_VIRSTRIDE |-> Shr(v.hor_virstride, 4),
                       SLICE_NUM_HIGHBIT |-> TRUE,
                       SLICE_NUM_LOWBITS |-> 2047]),
             RegWrite("RKVDEC_REG_STRM_RLC_BASE", 0, in.src_addr),
             RegWrite("RKVDEC_REG_STRM_LEN", 0, [STRM_LEN |-> in.src_size]),
             RegWrite("RKVDEC_REG_CABACTBL_PROB_BASE", 0,
                      in.priv_dma + OffsetofCabacTable),
             RegWrite("RKVDEC_REG_DECOUT_BASE", 0, in.dst_addr),
             RegWrite("RKVDEC_REG_Y_VIRSTRIDE", 0,
                      [Y_VIRSTRIDE |-> Shr(v.y_virstride, 4)]),
             RegWrite("RKVDEC_REG_YUV_VIRSTRIDE", 0,
                      [YUV_VIRSTRIDE |-> Shr(v.yuv_virstride, 4)]) >>
        tail ==
          << RegWrite("RKVDEC_REG_CUR_POC0", 0,
                      [CUR_POC |-> in.dec_param.top_field_order_cnt]),
             RegWrite("RKVDEC_REG_CUR_POC1", 0,
                      [CUR_POC |-> in.dec_param.bottom_field_order_cnt]),
             RegWrite("RKVDEC_REG_PPS_BASE", 0, in.priv_dma + OffsetofParamSet),
             RegWrite("RKVDEC_REG_RPS_BASE", 0, in.priv_dma + OffsetofRps),
             RegWrite("RKVDEC_REG_AXI_DDR_RDATA", 0, [AXI_DDR_RDATA |-> 0]),
             RegWrite("RKVDEC_REG_AXI_DDR_WDATA", 0, [AXI_DDR_WDATA |-> 0]),
             RegWrite("RKVDEC_REG_H264_ERRINFO_BASE", 0,
                      in.priv_dma + OffsetofErrInfo) >>
        loop == cfg_ref_loop(in, 0, [log |-> head, refs |-> <<>>])
    IN  [log |-> loop.log \o tail, refs |-> loop.refs]

(* ---------------------------------------------------------------------- *)
(* Inputs of the frame pipeline                                            *)
(* ---------------------------------------------------------------------- *)

\* frames run one after the other on the same auxiliary buffer
MaxFrames == 2

\* struct v4l2_ctrl_h264_sps of a 1920x1088 progressive stream
SpsOf(idc, depth) ==
    [chroma_format_idc |-> idc,
     bit_depth_luma_minus8 |-> depth,
     bit_depth_chroma_minus8 |-> depth,
     log2_max_frame_num_minus4 |-> 0,
     max_num_ref_frames |-> 4,
     pic_order_cnt_type |-> 0,
     log2_max_pic_order_cnt_lsb_minus4 |-> 2,
     pic_width_in_mbs_minus1 |-> 119,
     pic_height_in_map_units_minus1 |-> 67,
     flags |-> {"FRAME_MBS_ONLY", "DIRECT_8X8_INFERENCE"}]

\* struct v4l2_ctrl_h264_pps with id and the signed quantiser offsets qp
PpsOf(id, qp) ==
    [pic_parameter_set_id |-> id,
     num_ref_idx_l0_default_active_minus1 |-> IF qp < 0 THEN 2 ELSE 0,
     num_ref_idx_l1_default_active_minus1 |-> 0,
     weighted_bipred_idc |-> IF qp < 0 THEN 2 ELSE 0,
     pic_init_qp_minus26 |-> qp,
     pic_init_qs_minus26 |-> qp,
     chroma_qp_index_offset |-> qp,
     second_chroma_qp_index_offset |-> qp,
     flags |-> IF qp < 0 THEN {"ENTROPY_CODING_MODE", "TRANSFORM_8X8_MODE"}
                         ELSE {"DEBLOCKING_FILTER_CONTROL_PRESENT"}]

\* struct v4l2_h264_dpb_entry
DpbEntry(active, pic_num, long_term, ts, top, bottom) ==
    [active |-> active, pic_num |-> pic_num, long_term |-> long_term,
     reference_ts |-> ts, top_field_order_cnt |-> top,
     bottom_field_order_cnt |-> bottom]

\* DPB contents: "empty" has no picture; "refs" has slot 0 (in the store),
\* slot 1 (not in the store), slot 2 inactive with the timestamp of slot 0
\* and slot 15 long term (in the store); "full" has every slot active
DpbOf(kind) ==
    [i \in 0..15 |->
        IF kind = "full" THEN DpbEntry(TRUE, i + 1, FALSE, 10 + (i % 3), 2 * i, 2 * i)
        ELSE IF kind = "refs" /\ i = 0 THEN DpbEntry(TRUE, 3, FALSE, 10, 8, 8)
        ELSE IF kind = "refs" /\ i = 1 THEN DpbEntry(TRUE, 2, FALSE, 11, 4, 5)
        ELSE IF kind = "refs" /\ i = 2 THEN DpbEntry(FALSE, 0, FALSE, 10, 0, 0)
        ELSE IF kind = "refs" /\ i = 15 THEN DpbEntry(TRUE, 1, TRUE, 12, 2, 2)
        ELSE DpbEntry(FALSE, 0, FALSE, 0, 0, 0)]

\* struct v4l2_ctrl_h264_decode_params
DecodeParamsOf(kind, poc) ==
    [dpb |-> DpbOf(kind),
     ref_pic_list_p0 |-> [i \in 0..31 |->
         IF kind = "empty" THEN 255
         ELSE IF i = 0 THEN 0 ELSE IF i = 1 THEN 1 ELSE IF i = 2 THEN 15 ELSE 255],
     ref_pic_list_b0 |-> [i \in 0..31 |->
         IF kind = "empty" THEN 255 ELSE IF i = 0 THEN 1 ELSE IF i = 31 THEN 2 ELSE 255],
     ref_pic_list_b1 |-> [i \in 0..31 |->
         IF kind = "full" /\ i < 16 THEN 15 - i ELSE 255],
     top_field_order_cnt |-> poc[1],
     bottom_field_order_cnt |-> poc[2]]

\* the capture buffers the picture store holds: timestamp to address
PictureStore == (10 :> 8192) @@ (12 :> 12288)

\* scaling lists in matrix (raster) order: "flat" is all 16, "ramp" has a
\* different value at every position of a list
RasterOf(kind) ==
    [scaling_list_4x4 |-> [k \in 0..5 |-> [r \in 0..15 |->
         IF kind = "flat" THEN 16 ELSE 1 + 16 * k + r]],
     scaling_list_8x8 |-> [k \in 0..5 |-> [r \in 0..63 |->
         IF kind = "flat" THEN 16 ELSE (100 + 64 * k + r) % 256]]]

\* struct v4l2_ctrl_h264_scaling_matrix as the bitstream carries it: the
\* lists of raster in zig-zag order, src[j] = raster[zig_zag[j]]
ScalingMatrixOf(raster) ==
    [scaling_list_4x4 |-> [k \in 0..5 |-> [j \in 0..15 |->
         raster.scaling_list_4x4[k][zig_zag_4x4[j + 1]]]],
     scaling_list_8x8 |-> [k \in 0..5 |-> [j \in 0..63 |->
         raster.scaling_list_8x8[k][zig_zag_8x8[j + 1]]]]]

\* everything one frame gives to the pipeline
FrameOf(id, qp, dpbkind, sclkind, idc, depth, width, height, poc, dst_addr) ==
    [sps |-> SpsOf(idc, depth),
     pps |-> PpsOf(id, qp),
     dec_param |-> DecodeParamsOf(dpbkind, poc),
     raster |-> RasterOf(sclkind),
     scaling |-> ScalingMatrixOf(RasterOf(sclkind)),
     dst_fmt |-> [width |-> width, height |-> height],
     src_addr |-> 4096, src_size |-> 512,
     dst_addr |-> dst_addr,
     priv_dma |-> 65536,
     store |-> PictureStore]

\* the frames of the pipeline specification
FrameInputs ==
    { FrameOf(id, qp, IF qp < 0 THEN "refs" ELSE "empty",
              IF id = 7 THEN "flat" ELSE "ramp", 1, 0,
              ToU32(1920), ToU32(1088), <<4, 4>>, 16384) :
        id \in {5, 7}, qp \in {0, -1} }
      \cup
    { FrameOf(id, -26, "full", "ramp", 2, 2, ToU32(1280), ToU32(720),
              <<6, 7>>, 20480) : id \in {0, 255} }

\* widths and heights of the destination format, as u32 words
RegsWidths ==
    { ToU32(0), ToU32(16), ToU32(20), ToU32(1920), ToU32(4096), {31}, Ones32 }

RegsHeights ==
    { ToU32(0), ToU32(1), ToU32(16), ToU32(1080), ToU32(1088), ToU32(2160),
      Ones32 \ {1, 2, 3} }

\* the destination buffer's address: none, or a buffer of the capture queue
RegsDstAddrs == {0, 16384}

\* what a freshly allocated auxiliary buffer may hold
AuxFill == {"zero", "ones"}

FillWord(fill) == IF fill = "zero" THEN Zero32 ELSE Ones32

FillByte(fill) == IF fill = "zero" THEN 0 ELSE 255

\* no frame in progress: the other specifications leave the pipeline alone
ParkedFrm ==
    /\ frm_pc = "idle"
    /\ frm_n = 0
    /\ frm_in = << >>
    /\ frm_base = "zero"
    /\ frm_prev = << >>
    /\ scaling_list = << >>
    /\ scl_log = << >>
    /\ param_set = << >>
    /\ cabac_table = "none"
    /\ err_info = "none"
    /\ regs_log = << >>
    /\ ref_log = << >>

(* ---------------------------------------------------------------------- *)
(* The job life cycle: device_run, the run hook, interrupt and watchdog    *)
(* ---------------------------------------------------------------------- *)

\* jobs dispatched in one behaviour
MaxJobs == 2

\* open contexts (file handles) of the device
MaxCtx == 2

\* interrupts delivered although the decoder has nothing to report
MaxSpurious == 1

Ctxs == 1..MaxCtx

Jobs == 1..MaxJobs

\* the controls rk3399_vdec_h264_run fetches, in the order it fetches them
Controls == {"SCALING_MATRIX", "DECODE_PARAMS", "SLICE_PARAMS", "SPS", "PPS"}

\* what userspace may have attached to a request: everything, or all but one
ControlSets == {Controls} \cup {Controls \ {c} : c \in Controls}

\* the run hook has not fetched the controls of the job yet
Unset == {"unset"}

\* bytesused values the interrupt handler may report
IrqBytes == {0, 4096}

VB2_BUF_STATE_DONE == "VB2_BUF_STATE_DONE"

VB2_BUF_STATE_ERROR == "VB2_BUF_STATE_ERROR"

InitJob ==
    /\ curr_ctx = 0
    /\ cur_job = 0
    /\ njobs = 0
    /\ nqueued = 0
    /\ bufs = [c \in Ctxs |-> 0]
    /\ run_pc = "idle"
    /\ run_ctx = 0
    /\ run_job = 0
    /\ job_ctrls = [j \in Jobs |-> Unset]
    /\ steps = [j \in Jobs |-> <<>>]
    /\ wd_pending = FALSE
    /\ wd_pc = "idle"
    /\ wd_ctx = 0
    /\ hw_irq = FALSE
    /\ spurious = 0
    /\ irq_pc = "idle"
    /\ irq_ctx = 0
    /\ irq_args = [bytesused |-> 0, result |-> VB2_BUF_STATE_DONE]
    /\ resets = [j \in Jobs |-> 0]
    /\ finishes = [j \in Jobs |-> <<>>]
    /\ stray = {}
    /\ clk_count = 0
    /\ pm_count = 0

\* rockchip_vpu_dec_buf_finish: always succeeds
rockchip_vpu_dec_buf_finish(ctx, bytesused) == 0

\* the result as the caller passed it, whatever ctx->buf_finish returned
job_finish_result_unchecked(ret, result) == result

\* ret = ctx->buf_finish(...); if (ret) result = VB2_BUF_STATE_ERROR;
job_finish_result(ret, result) == IF ret # 0 THEN VB2_BUF_STATE_ERROR ELSE result

\* rockchip_vpu_job_finish(vpu, ctx, bytesused, result), called by path;
\* clk0 and pm0 are the clock and runtime-PM counts at the call.
rockchip_vpu_job_finish(ctx, path, bytesused, result, clk0, pm0) ==
    \* pm_runtime_put_autosuspend(); clk_bulk_disable();
    /\ pm_count' = pm0 - 1
    /\ clk_count' = clk0 - 1
    /\ IF ctx = 0
       THEN \* ctx->fh.m2m_ctx through a NULL ctx: the call does not complete
            /\ stray' = stray \cup {ctx}
            /\ UNCHANGED <<bufs, curr_ctx, cur_job, finishes>>
       ELSE LET ret   == rockchip_vpu_dec_buf_finish(ctx, bytesused)
                state == job_finish_result(ret, result)
                entry == [path |-> path, ctx |-> ctx, bytesused |-> bytesused,
                          src |-> IF bufs[ctx] > 0 THEN state ELSE "none",
                          dst |-> IF bufs[ctx] > 0 THEN state ELSE "none"]
            IN  \* src/dst = v4l2_m2m_*_buf_remove(); WARN_ON(!src): return;
                \* v4l2_m2m_buf_done(src, result); v4l2_m2m_buf_done(dst, result);
                /\ bufs' = IF bufs[ctx] > 0 THEN [bufs EXCEPT ![ctx] = @ - 1]
                                           ELSE bufs
                \* v4l2_m2m_job_finish(): ends the job only when ctx is the
                \* context the framework is running
                /\ IF ctx = curr_ctx
                   THEN /\ finishes' = [finishes EXCEPT ![cur_job] = Append(@, entry)]
                        /\ curr_ctx' = IF bufs[ctx] > 0 THEN 0 ELSE curr_ctx
                        /\ cur_job' = IF bufs[ctx] > 0 THEN 0 ELSE cur_job
                        /\ UNCHANGED stray
                   ELSE /\ stray' = stray \cup {ctx}
                        /\ UNCHANGED <<finishes, curr_ctx, cur_job>>

\* userspace queues a source and a destination buffer on context c
QueueBufs(c) ==
    /\ nqueued < MaxJobs
    /\ nqueued' = nqueued + 1
    /\ bufs' = [bufs EXCEPT ![c] = @ + 1]
    /\ UNCHANGED <<curr_ctx, cur_job, njobs, run_pc, run_ctx, run_job,
                   job_ctrls, steps, wd_pending, wd_pc, wd_ctx, hw_irq, spurious,
                   irq_pc, irq_ctx, irq_args, resets, finishes, stray,
                   clk_count, pm_count>>
    /\ UNCHANGED <<hdrVars, rpsVars, frmVars, strmVars, finVars, brgVars,
                   chkVars, fmtVars>>

\* the mem2mem framework makes c the current context and calls device_run
Dispatch(c) ==
    /\ curr_ctx = 0
    /\ run_pc = "idle"
    /\ bufs[c] > 0
    \* a job is scheduled only for a context streaming on both queues
    /\ \A q \in DOMAIN streaming[c] : streaming[c][q]
    /\ njobs < MaxJobs
    /\ njobs' = njobs + 1
    /\ curr_ctx' = c
    /\ cur_job' = njobs + 1
    /\ run_ctx' = c
    /\ run_job' = njobs + 1
    /\ run_pc' = "device_run"
    /\ UNCHANGED <<nqueued, bufs, job_ctrls, steps, wd_pending, wd_pc, wd_ctx,
                   hw_irq, spurious, irq_pc, irq_ctx, irq_args, resets,
                   finishes, stray, clk_count, pm_count>>
    /\ UNCHANGED <<hdrVars, rpsVars, frmVars, strmVars, finVars, brgVars,
                   chkVars, fmtVars>>

\* device_run up to the call of codec_ops->run; clk_ok and pm_ok are the
\* outcomes of clk_bulk_enable and pm_runtime_get_sync
DeviceRun(clk_ok, pm_ok) ==
    /\ run_pc = "device_run"
    /\ IF ~clk_ok
       THEN \* goto err_cancel_job
            /\ rockchip_vpu_job_finish(run_ctx, "device_run", 0,
                                       VB2_BUF_STATE_ERROR, clk_count, pm_count)
            /\ run_pc' = "idle"
       ELSE IF ~pm_ok
       THEN \* the clocks are on, the usage count was raised; goto err_cancel_job
            /\ rockchip_vpu_job_finish(run_ctx, "device_run", 0,
                                       VB2_BUF_STATE_ERROR,
                                       clk_count + 1, pm_count + 1)
            /\ run_pc' = "idle"
       ELSE /\ clk_count' = clk_count + 1
            /\ pm_count' = pm_count + 1
            /\ run_pc' = "run"
            /\ UNCHANGED <<bufs, curr_ctx, cur_job, finishes, stray>>
    /\ UNCHANGED <<njobs, nqueued, run_ctx, run_job, job_ctrls, steps,
                   wd_pending, wd_pc, wd_ctx, hw_irq, spurious, irq_pc, irq_ctx,
                   irq_args, resets>>
    /\ UNCHANGED <<hdrVars, rpsVars, frmVars, strmVars, finVars, brgVars,
                   chkVars, fmtVars>>

\* the controls one call of the run hook insists on
RequiredControlsButPps == Controls \ {"PPS"}

\* if (WARN_ON(!scaling_matrix)) return; ... if (WARN_ON(!pps)) return;
RequiredControls == Controls

\* rk3399_vdec_h264_run: the five rockchip_vpu_get_ctrl calls and their
\* checks; present is what the request carries
RunGetCtrls(present) ==
    /\ run_pc = "run"
    /\ job_ctrls' = [job_ctrls EXCEPT ![run_job] = present]
    /\ run_pc' = IF RequiredControls \subseteq present THEN "pipeline" ELSE "idle"
    /\ UNCHANGED <<curr_ctx, cur_job, njobs, nqueued, bufs, run_ctx, run_job,
                   steps, wd_pending, wd_pc, wd_ctx, hw_irq, spurious, irq_pc,
                   irq_ctx, irq_args, resets, finishes, stray, clk_count,
                   pm_count>>
    /\ UNCHANGED <<hdrVars, rpsVars, frmVars, strmVars, finVars, brgVars,
                   chkVars, fmtVars>>

\* the run hook with the trigger written before the watchdog is armed
RunProgramTriggerFirst ==
    << "reorder_scaling_list", "assemble_hw_pps", "assemble_hw_rps",
       "config_regs", "vdpu_write", "schedule_delayed_work" >>

\* the statements of rk3399_vdec_h264_run after the checks, in source
\* order; each names a position of the thread and the effect made there
RunProgram ==
    << "reorder_scaling_list", "assemble_hw_pps", "assemble_hw_rps",
       "config_regs", "schedule_delayed_work", "vdpu_write" >>

\* dump_params(): the thread enters the pipeline
RunEnter ==
    /\ run_pc = "pipeline"
    /\ run_pc' = RunProgram[1]
    /\ UNCHANGED <<curr_ctx, cur_job, njobs, nqueued, bufs, run_ctx, run_job,
                   job_ctrls, steps, wd_pending, wd_pc, wd_ctx, hw_irq, spurious,
                   irq_pc, irq_ctx, irq_args, resets, finishes, stray,
                   clk_count, pm_count>>
    /\ UNCHANGED <<hdrVars, rpsVars, frmVars, strmVars, finVars, brgVars,
                   chkVars, fmtVars>>

\* the position after position pc of the run hook
RunAfter(pc) ==
    LET k == CHOOSE n \in 1..Len(RunProgram) : RunProgram[n] = pc
    IN  IF k = Len(RunProgram) THEN "idle" ELSE RunProgram[k + 1]

\* one statement of rk3399_vdec_h264_run after the control checks
RunStep ==
    /\ run_pc \in {RunProgram[n] : n \in 1..Len(RunProgram)}
    /\ steps' = [steps EXCEPT ![run_job] = Append(@, run_pc)]
    \* schedule_delayed_work(&vpu->watchdog_work, msecs_to_jiffies(2000))
    /\ wd_pending' = IF run_pc = "schedule_delayed_work" THEN TRUE ELSE wd_pending
    \* vdpu_write(vpu, RKVDEC_INTERRUPT_DEC_E | ..., RKVDEC_REG_INTERRUPT)
    /\ hw_irq' = IF run_pc = "vdpu_write" THEN TRUE ELSE hw_irq
    /\ run_pc' = RunAfter(run_pc)
    /\ UNCHANGED <<curr_ctx, cur_job, njobs, nqueued, bufs, run_ctx, run_job,
                   job_ctrls, wd_pc, wd_ctx, spurious, irq_pc, irq_ctx, irq_args,
                   resets, finishes, stray, clk_count, pm_count>>
    /\ UNCHANGED <<hdrVars, rpsVars, frmVars, strmVars, finVars, brgVars,
                   chkVars, fmtVars>>

\* the watchdog finishing the job as done
WatchdogFinishDone == [bytesused |-> 0, result |-> VB2_BUF_STATE_DONE]

\* rockchip_vpu_job_finish(vpu, ctx, 0, VB2_BUF_STATE_ERROR) in the watchdog
WatchdogFinishArgs == [bytesused |-> 0, result |-> VB2_BUF_STATE_ERROR]

\* the delay expires and the work function rockchip_vpu_watchdog starts;
\* from here on cancel_delayed_work() finds nothing to cancel
WatchdogFire ==
    /\ wd_pending
    /\ wd_pc = "idle"
    /\ wd_pending' = FALSE
    /\ wd_pc' = "get_curr_priv"
    /\ UNCHANGED <<curr_ctx, cur_job, njobs, nqueued, bufs, run_pc, run_ctx,
                   run_job, job_ctrls, steps, wd_ctx, hw_irq, spurious, irq_pc,
                   irq_ctx, irq_args, resets, finishes, stray, clk_count,
                   pm_count>>
    /\ UNCHANGED <<hdrVars, rpsVars, frmVars, strmVars, finVars, brgVars,
                   chkVars, fmtVars>>

\* ctx = v4l2_m2m_get_curr_priv(vpu->m2m_dev); if (ctx) ...
WatchdogGetCtx ==
    /\ wd_pc = "get_curr_priv"
    /\ wd_ctx' = curr_ctx
    /\ wd_pc' = IF curr_ctx # 0 THEN "reset" ELSE "idle"
    /\ UNCHANGED <<curr_ctx, cur_job, njobs, nqueued, bufs, run_pc, run_ctx,
                   run_job, job_ctrls, steps, wd_pending, hw_irq, spurious,
                   irq_pc, irq_ctx, irq_args, resets, finishes, stray,
                   clk_count, pm_count>>
    /\ UNCHANGED <<hdrVars, rpsVars, frmVars, strmVars, finVars, brgVars,
                   chkVars, fmtVars>>

\* the watchdog going from the context lookup straight to the finish
WatchdogResetsSkipped(n) == n

\* the reset count of the current job after ctx->codec_ops->reset(ctx)
WatchdogResets(n) == n + 1

\* ctx->codec_ops->reset(ctx): the decoder is stopped
WatchdogReset ==
    /\ wd_pc = "reset"
    /\ resets' = IF cur_job # 0
                 THEN [resets EXCEPT ![cur_job] = WatchdogResets(@)]
                 ELSE resets
    /\ hw_irq' = FALSE
    /\ wd_pc' = "job_finish"
    /\ UNCHANGED <<curr_ctx, cur_job, njobs, nqueued, bufs, run_pc, run_ctx,
                   run_job, job_ctrls, steps, wd_pending, wd_ctx, spurious,
                   irq_pc, irq_ctx, irq_args, finishes, stray, clk_count,
                   pm_count>>
    /\ UNCHANGED <<hdrVars, rpsVars, frmVars, strmVars, finVars, brgVars,
                   chkVars, fmtVars>>

\* rockchip_vpu_job_finish(vpu, ctx, 0, VB2_BUF_STATE_ERROR)
WatchdogFinish ==
    /\ wd_pc = "job_finish"
    /\ rockchip_vpu_job_finish(wd_ctx, "watchdog", WatchdogFinishArgs.bytesused,
                               WatchdogFinishArgs.result, clk_count, pm_count)
    \* the work function returns: its ctx is gone
    /\ wd_pc' = "idle"
    /\ wd_ctx' = 0
    /\ UNCHANGED <<njobs, nqueued, run_pc, run_ctx, run_job, job_ctrls, steps,
                   wd_pending, hw_irq, spurious, irq_pc, irq_ctx,
                   irq_args, resets>>
    /\ UNCHANGED <<hdrVars, rpsVars, frmVars, strmVars, finVars, brgVars,
                   chkVars, fmtVars>>

\* the interrupt handler enters rockchip_vpu_irq_done(vpu, bytesused, result):
\* ctx = v4l2_m2m_get_curr_priv(vpu->m2m_dev).  The interrupt is the
\* decoder's completion, or a spurious one.
IrqEnter(bytesused, result) ==
    /\ irq_pc = "idle"
    /\ \/ /\ hw_irq
          /\ hw_irq' = FALSE
          /\ UNCHANGED spurious
       \/ /\ ~hw_irq
          /\ spurious < MaxSpurious
          /\ spurious' = spurious + 1
          /\ UNCHANGED hw_irq
    /\ irq_ctx' = curr_ctx
    /\ irq_args' = [bytesused |-> bytesused, result |-> result]
    /\ irq_pc' = "cancel_delayed_work"
    /\ UNCHANGED <<curr_ctx, cur_job, njobs, nqueued, bufs, run_pc, run_ctx,
                   run_job, job_ctrls, steps, wd_pending, wd_pc, wd_ctx, resets,
                   finishes, stray, clk_count, pm_count>>
    /\ UNCHANGED <<hdrVars, rpsVars, frmVars, strmVars, finVars, brgVars,
                   chkVars, fmtVars>>

\* a cancel that leaves the delayed work as it was
cancel_delayed_work_kept(pending) == pending

\* cancel_delayed_work(&vpu->watchdog_work): the work is pending no more
cancel_delayed_work(pending) == FALSE

\* if (cancel_delayed_work(&vpu->watchdog_work)) rockchip_vpu_job_finish(...)
IrqMayFinish(cancelled) == cancelled

\* cancel_delayed_work() and, when it cancelled the pending watchdog,
\* rockchip_vpu_job_finish(vpu, ctx, bytesused, result)
IrqCancel ==
    /\ irq_pc = "cancel_delayed_work"
    /\ wd_pending' = cancel_delayed_work(wd_pending)
    /\ IF IrqMayFinish(wd_pending)
       THEN rockchip_vpu_job_finish(irq_ctx, "irq", irq_args.bytesused,
                                    irq_args.result, clk_count, pm_count)
       ELSE UNCHANGED <<bufs, curr_ctx, cur_job, finishes, stray, clk_count,
                        pm_count>>
    \* the handler returns: its ctx and its arguments are gone
    /\ irq_pc' = "idle"
    /\ irq_ctx' = 0
    /\ irq_args' = [bytesused |-> 0, result |-> VB2_BUF_STATE_DONE]
    /\ UNCHANGED <<njobs, nqueued, run_pc, run_ctx, run_job, job_ctrls, steps,
                   wd_pc, wd_ctx, hw_irq, spurious, resets>>
    /\ UNCHANGED <<hdrVars, rpsVars, frmVars, strmVars, finVars, brgVars,
                   chkVars, fmtVars>>

\* the other specifications leave the device untouched, and this one
\* leaves the staged buffers of the others untouched
\* no single rockchip_vpu_job_finish call is under way
ParkedFin ==
    /\ fin_pc = "done"
    /\ fin_in = << >>
    /\ fin_out = << >>

\* no encoder and no bridge exists
ParkedBrg ==
    /\ bridge_chain = << >>
    /\ b_dev = << >>
    /\ b_encoder = << >>
    /\ b_node = << >>
    /\ b_obj = << >>
    /\ op = << >>

\* no atomic check is made
ParkedChk ==
    /\ fmt_drv = << >>
    /\ conn_fmts = << >>
    /\ bus_cfg = << >>
    /\ chk = << >>

\* no file of the video device is looked at
ParkedFmt ==
    /\ fmt_ctx = "closed"
    /\ formats = << >>
    /\ vpu_src_fmt = 0
    /\ vpu_dst_fmt = 0
    /\ pix_fmt = << >>
    /\ vq = << >>
    /\ codec_ops = {}
    /\ ioctl = << >>

ParkedHdr ==
    /\ hdr_pc = "done"
    /\ hdr_value = Zero32
    /\ hdr_offset = 0
    /\ hdr_len = 1
    /\ hdr_old = [w \in HdrWords |-> Zero32]
    /\ hdr_buf = [w \in HdrWords |-> Zero32]

\* the two vb2 queues of a mem2mem context
Queues == {"OUTPUT", "CAPTURE"}

\* every context streams on both queues with its auxiliary buffer allocated
ParkedStrm ==
    /\ streaming = [c \in Ctxs |-> [q \in Queues |-> TRUE]]
    /\ aux_buf = [c \in Ctxs |-> "allocated"]
    /\ aux_calls = [c \in Ctxs |-> << "init" >>]

ParkedRps ==
    /\ rps_pc = "done"
    /\ rps_edits = 0
    /\ dec_param = [dpb |-> <<>>, ref_pic_list_p0 |-> <<>>,
                    ref_pic_list_b0 |-> <<>>, ref_pic_list_b1 |-> <<>>]
    /\ hw_rps = [w \in RpsWords |-> Zero32]
    /\ rps_log = <<>>

Init == InitJob /\ ParkedHdr /\ ParkedRps /\ ParkedFrm /\ ParkedStrm /\ ParkedFin /\ ParkedBrg /\ ParkedChk /\ ParkedFmt

Next ==
    \/ \E c \in Ctxs : QueueBufs(c)
    \/ \E c \in Ctxs : Dispatch(c)
    \/ \E clk_ok \in BOOLEAN, pm_ok \in BOOLEAN : DeviceRun(clk_ok, pm_ok)
    \/ \E present \in ControlSets : RunGetCtrls(present)
    \/ RunEnter
    \/ RunStep
    \/ WatchdogFire
    \/ WatchdogGetCtx
    \/ WatchdogReset
    \/ WatchdogFinish
    \/ \E b \in IrqBytes, r \in {VB2_BUF_STATE_DONE, VB2_BUF_STATE_ERROR} :
          IrqEnter(b, r)
    \/ IrqCancel

\* the device: jobs, interrupt handler and watchdog interleaved
Spec == Init /\ [][Next]_vars

(* ---------------------------------------------------------------------- *)
(* Properties of the job life cycle                                        *)
(* ---------------------------------------------------------------------- *)

\* the run hook of job j armed the watchdog / wrote the start bits
Armed(j) == \E n \in 1..Len(steps[j]) : steps[j][n] = "schedule_delayed_work"

Triggered(j) == \E n \in 1..Len(steps[j]) : steps[j][n] = "vdpu_write"

\* device_run has returned for job j
Returned(j) == j <= njobs /\ (run_job > j \/ (run_job = j /\ run_pc = "idle"))

\* something is still going to call rockchip_vpu_job_finish for the
\* current job: the armed watchdog (which the interrupt path may cancel
\* and then finishes itself), or the running watchdog work
LiveFinisher ==
    \/ wd_pending
    \/ wd_pc = "get_curr_priv"
    \/ (wd_pc \in {"reset", "job_finish"} /\ wd_ctx = curr_ctx)

\* C1: for every job whose hardware run was started, under every
\* interleaving of rockchip_vpu_irq_done and rockchip_vpu_watchdog,
\* rockchip_vpu_job_finish is invoked exactly once for that job: never by
\* both paths, and never zero times (an unfinished started job always has
\* a path left that will finish it).
C1_ExactlyOnce ==
    \A j \in Jobs :
        Triggered(j) =>
            /\ Len(finishes[j]) <= 1
            /\ Len(finishes[j]) = 0 => (cur_job = j /\ LiveFinisher)

\* C2: every job dispatched through device_run is eventually completed on
\* every path through device_run and the run hook: once device_run has
\* returned, the job has been finished or a watchdog is armed or running
\* that will finish it.
C2_EveryJobFinished ==
    \A j \in Jobs :
        (Returned(j) /\ Len(finishes[j]) = 0) => (cur_job = j /\ LiveFinisher)

\* a is a prefix of b
IsPrefix(a, b) == Len(a) <= Len(b) /\ \A n \in 1..Len(a) : a[n] = b[n]

\* C3: within one call of the run hook the effects occur in the order
\* reorder_scaling_list, assemble_hw_pps, assemble_hw_rps, config_regs,
\* arming of the watchdog, write of the start bits; the watchdog has been
\* made pending (the arming step leaves it pending) before the trigger
\* write is issued.
C3_RunOrder ==
    /\ [](\A j \in Jobs :
            IsPrefix(steps[j],
                     << "reorder_scaling_list", "assemble_hw_pps",
                        "assemble_hw_rps", "config_regs",
                        "schedule_delayed_work", "vdpu_write" >>))
    /\ [](run_pc = "vdpu_write" => Armed(run_job))
    /\ [][(run_pc = "schedule_delayed_work" /\ run_pc' # run_pc) => wd_pending']_vars

C3_Witness ==
    \E j \in Jobs : Len(steps[j]) = 6 /\ Triggered(j) /\ Armed(j)

C5_AllOrNothing ==
    \A j \in Jobs :
        job_ctrls[j] # Unset =>
            IF job_ctrls[j] # Controls
            THEN /\ steps[j] = <<>>
                 /\ cur_job = j => ~wd_pending
            ELSE Returned(j) =>
                    steps[j] = << "reorder_scaling_list", "assemble_hw_pps",
                                  "assemble_hw_rps", "config_regs",
                                  "schedule_delayed_work", "vdpu_write" >>

C5_Witness ==
    \E j \in Jobs :
        /\ job_ctrls[j] # Unset
        /\ job_ctrls[j] # Controls
        /\ Returned(j)
        /\ \E k \in Jobs : Returned(k) /\ job_ctrls[k] = Controls

(* ---------------------------------------------------------------------- *)
(* Specification of single write_header calls                              *)
(* ---------------------------------------------------------------------- *)

\* a caller has picked the arguments and the buffer's prior content
InitHdr ==
    /\ hdr_pc = "called"
    /\ hdr_offset \in 0..31
    /\ hdr_len \in 1..32
    /\ hdr_value \in HdrMaskedValues(hdr_len) \cup HdrWideValues(hdr_len)
    /\ hdr_old \in HdrOldContents
    /\ hdr_buf = hdr_old
    /\ ParkedRps
    /\ InitJob
    /\ ParkedFmt
    /\ ParkedChk
    /\ ParkedBrg
    /\ ParkedFin
    /\ ParkedFrm
    /\ ParkedStrm

\* the call runs to completion
HdrWrite ==
    /\ hdr_pc = "called"
    /\ \E ub \in Shl32Outcomes :
           hdr_buf' = write_header(hdr_value, hdr_buf, hdr_offset, hdr_len, ub)
    /\ hdr_pc' = "done"
    /\ UNCHANGED <<hdr_value, hdr_offset, hdr_len, hdr_old>>
    /\ UNCHANGED <<rpsVars, jobVars, frmVars, strmVars, finVars, brgVars,
                   chkVars, fmtVars>>

NextHdr == HdrWrite

SpecHdr == InitHdr /\ [][NextHdr]_vars

\* the bits outside [offset, offset+len) are as before the call
HdrOutsideUnchanged ==
    \A n \in 0..63 :
        (n < hdr_offset \/ n >= hdr_offset + hdr_len)
            => (StreamBit(hdr_buf, n) <=> StreamBit(hdr_old, n))

\* C9: for 0 <= o < 32, 1 <= l <= 32 and a value already masked to l bits,
\* after write_header the bits [o, o+l) of the word stream read back as the
\* value (straddling fields and l = 32 included) and every other bit is
\* unchanged.
C9_RoundTrip ==
    (hdr_pc = "done" /\ hdr_value \subseteq 0..(hdr_len - 1))
        => /\ ReadField(hdr_buf, hdr_offset, hdr_len) = hdr_value
           /\ HdrOutsideUnchanged

\* C10: for every 32-bit value, bits at or above len included, only the low
\* len bits are stored and only the bits [offset, offset+len) change.
C10_LowBitsOnly ==
    hdr_pc = "done"
        => /\ ReadField(hdr_buf, hdr_offset, hdr_len)
                  = {b \in hdr_value : b < hdr_len}
           /\ HdrOutsideUnchanged

(* ---------------------------------------------------------------------- *)
(* Specification of assemble_hw_rps on staged decode parameters            *)
(* ---------------------------------------------------------------------- *)

InitRps ==
    /\ rps_pc = "input"
    /\ rps_edits = 0
    /\ dec_param \in RpsBaseParams
    /\ hw_rps \in RpsOldContents
    /\ rps_log = <<>>
    /\ ParkedHdr
    /\ InitJob
    /\ ParkedFmt
    /\ ParkedChk
    /\ ParkedBrg
    /\ ParkedFin
    /\ ParkedFrm
    /\ ParkedStrm

\* userspace stages one DPB entry of the decode-params control
SetDpbEntry(i, act, pn) ==
    /\ rps_pc = "input"
    /\ rps_edits < MaxEdits
    /\ dec_param.dpb[i] # [active |-> act, pic_num |-> pn]
    /\ dec_param' = [dec_param EXCEPT !.dpb[i] = [active |-> act, pic_num |-> pn]]
    /\ rps_edits' = rps_edits + 1
    /\ UNCHANGED <<rps_pc, hw_rps, rps_log>>
    /\ UNCHANGED <<hdrVars, jobVars, frmVars, strmVars, finVars, brgVars,
                   chkVars, fmtVars>>

\* userspace stages one entry of one reference list
SetRefEntry(j, i, idx) ==
    /\ rps_pc = "input"
    /\ rps_edits < MaxEdits
    /\ rps_list_idx(dec_param, j, i) # idx
    /\ dec_param' =
          CASE j = 0 -> [dec_param EXCEPT !.ref_pic_list_p0[i] = idx]
            [] j = 1 -> [dec_param EXCEPT !.ref_pic_list_b0[i] = idx]
            [] j = 2 -> [dec_param EXCEPT !.ref_pic_list_b1[i] = idx]
    /\ rps_edits' = rps_edits + 1
    /\ UNCHANGED <<rps_pc, hw_rps, rps_log>>
    /\ UNCHANGED <<hdrVars, jobVars, frmVars, strmVars, finVars, brgVars,
                   chkVars, fmtVars>>

\* the run function calls assemble_hw_rps
AssembleRps ==
    /\ rps_pc = "input"
    /\ \E ub \in Shl32Outcomes :
          LET r == assemble_hw_rps(dec_param, ub)
          IN  /\ hw_rps' = r.buf
              /\ rps_log' = r.log
    /\ rps_pc' = "done"
    /\ UNCHANGED <<rps_edits, dec_param>>
    /\ UNCHANGED <<hdrVars, jobVars, frmVars, strmVars, finVars, brgVars,
                   chkVars, fmtVars>>

NextRps ==
    \/ \E i \in EditSlots, act \in BOOLEAN, pn \in EditPicNums :
          SetDpbEntry(i, act, pn)
    \/ \E j \in 0..(NumRefLists - 1), i \in EditPositions, idx \in EditIndices :
          SetRefEntry(j, i, idx)
    \/ AssembleRps

SpecRps == InitRps /\ [][NextRps]_vars

(* ---------------------------------------------------------------------- *)
(* Properties of assemble_hw_rps                                           *)
(* ---------------------------------------------------------------------- *)

\* the 16-bit pic_num entry i of the RPS region
RpsPicNum(i) == FromBits(ReadField(hw_rps, 16 * i, 16))

\* C6: after assemble_hw_rps, for every DPB slot i in 0..15 the 16-bit
\* pic_num entry i of the RPS region is dpb[i].pic_num if the slot is
\* active and 0xFF otherwise; an inactive slot never yields 0, whatever its
\* pic_num field holds.
C6_PicNumSentinel ==
    rps_pc = "done" =>
        \A i \in 0..15 :
            /\ dec_param.dpb[i].active => RpsPicNum(i) = dec_param.dpb[i].pic_num
            /\ ~dec_param.dpb[i].active => (RpsPicNum(i) = 255 /\ RpsPicNum(i) # 0)

C6_Witness ==
    /\ rps_pc = "done"
    /\ \E i \in 0..15 : ~dec_param.dpb[i].active /\ dec_param.dpb[i].pic_num = 3
    /\ \E i \in 0..15 : dec_param.dpb[i].active
    /\ Len(rps_log) > 0

\* the (list, position) pairs whose stored DPB index is below 16
RpsInRange ==
    {p \in (0..2) \X (0..31) : rps_list_idx(dec_param, p[1], p[2]) < 16}

\* C7: in the second pass a field is written for a (list, position) pair
\* if and only if the index stored there is below 16: the number of writes
\* is the number of in-range indices, an out-of-range index produces no
\* write and is not clamped, it does not suppress the writes for later
\* positions, no pair is written twice, and the writes come list by list,
\* position by position.
C7_WritesInRangeOnly ==
    rps_pc = "done" =>
        /\ Len(rps_log) = Cardinality(RpsInRange)
        /\ {<<rps_log[n].list, rps_log[n].pos>> : n \in 1..Len(rps_log)} = RpsInRange
        /\ \A n \in 1..Len(rps_log) :
              /\ rps_log[n].idx = rps_list_idx(dec_param, rps_log[n].list, rps_log[n].pos)
              /\ rps_log[n].idx < 16
        /\ \A m, n \in 1..Len(rps_log) :
              m < n => 32 * rps_log[m].list + rps_log[m].pos
                          < 32 * rps_log[n].list + rps_log[n].pos

C7_Witness ==
    /\ rps_pc = "done"
    /\ \E j \in 0..2 :
          /\ rps_list_idx(dec_param, j, 0) >= 16
          /\ rps_list_idx(dec_param, j, 31) < 16
    /\ \E j \in 0..2, i \in 0..31 : rps_list_idx(dec_param, j, i) = 16
    /\ Len(rps_log) > 0

\* C8: for every in-range reference-list entry the 5-bit field written
\* has the DPB index in bits 0..3 and in bit 4 the ACTIVE flag of the DPB
\* entry the index refers to; an entry pointing at an inactive slot is
\* still written, with valid bit 0.
C8_FieldValue ==
    rps_pc = "done" =>
        \A n \in 1..Len(rps_log) :
            LET e     == rps_log[n]
                field == ReadField(hw_rps, DPB_INFO_OFF(e.pos, e.list), 5)
            IN  /\ e.value = e.idx + (IF dec_param.dpb[e.idx].active THEN 16 ELSE 0)
                /\ {b \in field : b < 4} = ToBits(e.idx, 4)
                /\ (4 \in field) <=> dec_param.dpb[e.idx].active

C8_Witness ==
    /\ rps_pc = "done"
    /\ \E n \in 1..Len(rps_log) : ~dec_param.dpb[rps_log[n].idx].active
    /\ \E n \in 1..Len(rps_log) :
          /\ dec_param.dpb[rps_log[n].idx].active
          /\ rps_log[n].idx # rps_log[n].pos % 16

(* ---------------------------------------------------------------------- *)
(* Specification of the per-frame pipeline on one auxiliary buffer         *)
(* ---------------------------------------------------------------------- *)

\* rk3399_vdec_h264_init has allocated the buffer and copied the CABAC
\* table; dma_alloc_coherent says nothing about the rest of its content
InitFrame ==
    /\ frm_pc = "idle"
    /\ frm_n = 0
    /\ frm_in = << >>
    /\ frm_base \in AuxFill
    /\ param_set = [w \in ParamSetWords |-> FillWord(frm_base)]
    /\ frm_prev = param_set
    /\ scaling_list = [b \in ScalingBytes |-> FillByte(frm_base)]
    /\ scl_log = << >>
    /\ cabac_table = "rk3399_vdec_h264_cabac_table"
    /\ err_info = frm_base
    /\ regs_log = << >>
    /\ ref_log = << >>
    /\ rps_pc = "done"
    /\ rps_edits = 0
    /\ dec_param = [dpb |-> <<>>, ref_pic_list_p0 |-> <<>>,
                    ref_pic_list_b0 |-> <<>>, ref_pic_list_b1 |-> <<>>]
    /\ hw_rps = [w \in RpsWords |-> FillWord(frm_base)]
    /\ rps_log = << >>
    /\ ParkedHdr
    /\ ParkedStrm
    /\ InitJob
    /\ ParkedFmt
    /\ ParkedChk
    /\ ParkedBrg
    /\ ParkedFin

\* rk3399_vdec_h264_run is entered with the controls and buffers of a frame
FrameStart(in) ==
    /\ frm_pc = "idle"
    /\ frm_n < MaxFrames
    /\ frm_n' = frm_n + 1
    /\ frm_in' = in
    /\ frm_pc' = "reorder_scaling_list"
    /\ regs_log' = << >>
    /\ ref_log' = << >>
    /\ UNCHANGED <<frm_base, frm_prev, scaling_list, scl_log, param_set,
                   cabac_table, err_info>>
    /\ UNCHANGED <<hdrVars, rpsVars, jobVars, strmVars, finVars, brgVars,
                   chkVars, fmtVars>>

\* reorder_scaling_list(ctx, scaling_matrix->p_cur.p)
ReorderScalingList ==
    /\ frm_pc = "reorder_scaling_list"
    /\ LET r == reorder_scaling_list(scaling_list, frm_in.scaling)
       IN  /\ scaling_list' = r.buf
           /\ scl_log' = r.log
    /\ frm_pc' = "assemble_hw_pps"
    /\ UNCHANGED <<frm_n, frm_in, frm_base, frm_prev, param_set, cabac_table,
                   err_info, regs_log, ref_log>>
    /\ UNCHANGED <<hdrVars, rpsVars, jobVars, strmVars, finVars, brgVars,
                   chkVars, fmtVars>>

\* assemble_hw_pps(ctx, sps, pps, dec_param->dpb)
AssembleHwPps ==
    /\ frm_pc = "assemble_hw_pps"
    /\ \E ub \in Shl32Outcomes :
          param_set' = assemble_hw_pps(param_set, frm_in.sps, frm_in.pps,
                                       frm_in.dec_param.dpb,
                                       ToU32(frm_in.priv_dma), ub)
    /\ frm_prev' = param_set
    /\ frm_pc' = "assemble_hw_rps"
    /\ UNCHANGED <<frm_n, frm_in, frm_base, scaling_list, scl_log, cabac_table,
                   err_info, regs_log, ref_log>>
    /\ UNCHANGED <<hdrVars, rpsVars, jobVars, strmVars, finVars, brgVars,
                   chkVars, fmtVars>>

\* assemble_hw_rps(ctx, dec_param)
AssembleHwRps ==
    /\ frm_pc = "assemble_hw_rps"
    /\ \E ub \in Shl32Outcomes :
          LET r == assemble_hw_rps(frm_in.dec_param, ub)
          IN  /\ hw_rps' = r.buf
              /\ rps_log' = r.log
    /\ frm_pc' = "config_regs"
    /\ UNCHANGED <<rps_pc, rps_edits, dec_param>>
    /\ UNCHANGED <<frm_n, frm_in, frm_base, frm_prev, scaling_list, scl_log,
                   param_set, cabac_table, err_info, regs_log, ref_log>>
    /\ UNCHANGED <<hdrVars, jobVars, strmVars, finVars, brgVars, chkVars,
                   fmtVars>>

\* config_regs(ctx, dec_param, sps, src_buf, dst_buf)
ConfigRegs ==
    /\ frm_pc = "config_regs"
    /\ LET r == config_regs(frm_in)
       IN  /\ regs_log' = r.log
           /\ ref_log' = r.refs
    /\ frm_pc' = "idle"
    /\ UNCHANGED <<frm_n, frm_in, frm_base, frm_prev, scaling_list, scl_log,
                   param_set, cabac_table, err_info>>
    /\ UNCHANGED <<hdrVars, rpsVars, jobVars, strmVars, finVars, brgVars,
                   chkVars, fmtVars>>

NextFrame ==
    \/ \E in \in FrameInputs : FrameStart(in)
    \/ ReorderScalingList
    \/ AssembleHwPps
    \/ AssembleHwRps
    \/ ConfigRegs

\* frames decoded one after the other by one context
SpecFrame == InitFrame /\ [][NextFrame]_vars

(* ---------------------------------------------------------------------- *)
(* Properties of assemble_hw_pps                                           *)
(* ---------------------------------------------------------------------- *)

\* the eight words of record id of the table ps
PpsRecord(ps, id) == [w \in 0..7 |-> ps[8 * id + w]]

\* assemble_hw_pps has returned for the current frame
PpsAssembled == frm_n > 0 /\ frm_pc \in {"assemble_hw_rps", "config_regs", "idle"}

\* C11: a call of assemble_hw_pps for PPS id a changes no word of the table
\* outside record a, and leaves the CABAC table, the scaling-list region,
\* the RPS region and the error-info region as they were.
C11_RecordIsolation ==
    [][frm_pc = "assemble_hw_pps" =>
          /\ \A w \in ParamSetWords :
                w \div 8 # frm_in.pps.pic_parameter_set_id
                    => param_set'[w] = param_set[w]
          /\ cabac_table' = cabac_table
          /\ scaling_list' = scaling_list
          /\ hw_rps' = hw_rps
          /\ err_info' = err_info]_vars

\* id 7 was assembled after id 5: record 5 still holds what its own assembly
\* left, which is neither the buffer's first content nor an empty record
C11_Witness ==
    /\ PpsAssembled
    /\ frm_n = 2
    /\ frm_in.pps.pic_parameter_set_id = 7
    /\ PpsRecord(param_set, 5) = PpsRecord(frm_prev, 5)
    /\ PpsRecord(frm_prev, 5) # [w \in 0..7 |-> FillWord(frm_base)]
    /\ PpsRecord(param_set, 7) # PpsRecord(frm_prev, 7)

\* C12: the record assemble_hw_pps leaves is the one it leaves on a zeroed
\* table for the same sps, pps, dpb and scaling-list address: it does not
\* depend on what the record held before the call.
C12_NoStaleField ==
    PpsAssembled =>
        \A ub \in Shl32Outcomes :
            PpsRecord(param_set, frm_in.pps.pic_parameter_set_id)
              = PpsRecord(assemble_hw_pps([w \in ParamSetWords |-> Zero32],
                                          frm_in.sps, frm_in.pps,
                                          frm_in.dec_param.dpb,
                                          ToU32(frm_in.priv_dma), ub),
                          frm_in.pps.pic_parameter_set_id)

\* a PPS id is reused: the record held the fields of another picture
\* parameter set, some of them set where the new one has them clear
C12_Witness ==
    /\ PpsAssembled
    /\ frm_n = 2
    /\ \E w \in 0..7 :
          LET old == PpsRecord(frm_prev, frm_in.pps.pic_parameter_set_id)[w]
              new == PpsRecord(param_set, frm_in.pps.pic_parameter_set_id)[w]
          IN  old \ new # {} /\ old # Ones32

(* ---------------------------------------------------------------------- *)
(* Properties of reorder_scaling_list                                      *)
(* ---------------------------------------------------------------------- *)

\* reorder_scaling_list has returned for the current frame
Reordered == frm_n > 0 /\ frm_pc # "reorder_scaling_list"

\* C13: after reorder_scaling_list the region holds list k of the 4x4 lists
\* at bytes 16k..16k+15 and list k of the 8x8 lists at bytes 96+64k.., entry
\* j of a list at the position the zig-zag table gives; the 4x4 stores come
\* first and stay in bytes 0..95, the 8x8 stores stay in bytes 96..479, and
\* no byte from 480 on is stored to.
C13_ReorderPlacement ==
    Reordered =>
        /\ \A k \in 0..5, j \in 0..15 :
              scaling_list[16 * k + zig_zag_4x4[j + 1]]
                  = frm_in.scaling.scaling_list_4x4[k][j]
        /\ \A k \in 0..5, j \in 0..63 :
              scaling_list[96 + 64 * k + zig_zag_8x8[j + 1]]
                  = frm_in.scaling.scaling_list_8x8[k][j]
        /\ \A n \in 1..Len(scl_log) :
              IF n <= 96 THEN scl_log[n] \in 0..95 ELSE scl_log[n] \in 96..479
        /\ \A b \in ScalingBytes : b >= 480 => scaling_list[b] = FillByte(frm_base)

\* lists with a different value at every position were reordered into a
\* region that held something else
C13_Witness ==
    /\ Reordered
    /\ frm_in.scaling.scaling_list_4x4[0][2] # frm_in.scaling.scaling_list_4x4[0][3]
    /\ frm_in.scaling.scaling_list_8x8[5][62] # frm_in.scaling.scaling_list_8x8[5][63]
    /\ frm_base = "ones"
    /\ scaling_list[479] # 255
    /\ scaling_list[480] = 255

\* C14: the two zig-zag tables are permutations of 0..15 and 0..63; lists
\* that were put into zig-zag order from a raster matrix come out of
\* reorder_scaling_list as that matrix; every byte 0..479 is stored to
\* exactly once.
C14_RoundTrip ==
    /\ Len(zig_zag_4x4) = 16
    /\ {zig_zag_4x4[j] : j \in 1..16} = 0..15
    /\ Len(zig_zag_8x8) = 64
    /\ {zig_zag_8x8[j] : j \in 1..64} = 0..63
    /\ Reordered =>
          /\ \A k \in 0..5, r \in 0..15 :
                scaling_list[16 * k + r] = frm_in.raster.scaling_list_4x4[k][r]
          /\ \A k \in 0..5, r \in 0..63 :
                scaling_list[96 + 64 * k + r] = frm_in.raster.scaling_list_8x8[k][r]
          /\ Len(scl_log) = 480
          /\ {scl_log[n] : n \in 1..Len(scl_log)} = 0..479

\* a raster matrix whose zig-zag order differs from its raster order went
\* through the round trip
C14_Witness ==
    /\ Reordered
    /\ frm_in.raster.scaling_list_4x4[1] # frm_in.scaling.scaling_list_4x4[1]
    /\ frm_in.raster.scaling_list_8x8[1] # frm_in.scaling.scaling_list_8x8[1]
    /\ scaling_list[16 + 8] = frm_in.raster.scaling_list_4x4[1][8]
    /\ scaling_list[16 + 8] = frm_in.scaling.scaling_list_4x4[1][3]

(* ---------------------------------------------------------------------- *)
(* Specification of config_regs on one frame                               *)
(* ---------------------------------------------------------------------- *)

\* config_regs is called with the decode parameters, the SPS, the format
\* and the buffers of a frame
InitRegs ==
    /\ frm_pc = "config_regs"
    /\ frm_n = 1
    /\ frm_in \in
         { FrameOf(5, 0, dpbkind, "flat", idc, depth, width, height, poc, dst_addr) :
             dpbkind \in {"empty", "refs", "full"}, idc \in 0..3,
             depth \in {0, 2}, width \in RegsWidths, height \in RegsHeights,
             poc \in {<<0, 0>>, <<4, 5>>}, dst_addr \in RegsDstAddrs }
    /\ frm_base = "zero"
    /\ frm_prev = << >>
    /\ scaling_list = << >>
    /\ scl_log = << >>
    /\ param_set = << >>
    /\ cabac_table = "rk3399_vdec_h264_cabac_table"
    /\ err_info = "zero"
    /\ regs_log = << >>
    /\ ref_log = << >>
    /\ ParkedHdr
    /\ ParkedRps
    /\ ParkedStrm
    /\ InitJob
    /\ ParkedFmt
    /\ ParkedChk
    /\ ParkedBrg
    /\ ParkedFin

NextRegs == ConfigRegs

SpecRegs == InitRegs /\ [][NextRegs]_vars

(* ---------------------------------------------------------------------- *)
(* Properties of config_regs                                               *)
(* ---------------------------------------------------------------------- *)

\* config_regs has returned
RegsWritten == frm_pc = "idle" /\ frm_n > 0

\* the values config_regs wrote to register reg (number n of a table)
RegVals(reg, n) ==
    LET ws == SelectSeq(regs_log, LAMBDA w : w.reg = <<reg, n>>)
    IN  [k \in 1..Len(ws) |-> ws[k].val]

\* the frame is 1920x1080 with 8-bit luma and 4:2:0 chroma
Is1080p ==
    /\ frm_in.dst_fmt.width = ToU32(1920)
    /\ frm_in.dst_fmt.height = ToU32(1080)
    /\ frm_in.sps.bit_depth_luma_minus8 = 0
    /\ frm_in.sps.chroma_format_idc = 1

\* C15 as the specification states it: for 1920x1080, bit depth 8 and
\* chroma_format_idc 1, config_regs computes horizontal stride 1920,
\* vertical stride 1080, luma size 2,073,600 and YUV size 3,110,400.
C15_Strides1080pAsStated ==
    (Is1080p /\ RegsWritten) =>
        /\ cfg_strides(frm_in).hor_virstride = ToU32(1920)
        /\ cfg_strides(frm_in).ver_virstride = ToU32(1080)
        /\ cfg_strides(frm_in).y_virstride = ToU32(2073600)
        /\ cfg_strides(frm_in).yuv_virstride = ToU32(3110400)

\* C15: for 1920x1080, bit depth 8 and chroma_format_idc 1, config_regs
\* computes horizontal stride 1920, vertical stride 1088 (1080 rounded up
\* to a multiple of 16), luma size 2,088,960 and YUV size 3,133,440, and
\* writes 120, 130,560 and 195,840 to the stride registers.
C15_Strides1080p ==
    (Is1080p /\ RegsWritten) =>
        /\ cfg_strides(frm_in).hor_virstride = ToU32(1920)
        /\ cfg_strides(frm_in).ver_virstride = ToU32(1088)
        /\ cfg_strides(frm_in).y_virstride = ToU32(2088960)
        /\ cfg_strides(frm_in).yuv_virstride = ToU32(3133440)
        /\ RegVals("RKVDEC_REG_PICPAR", 0)[1].Y_HOR_VIRSTRIDE = ToU32(120)
        /\ RegVals("RKVDEC_REG_Y_VIRSTRIDE", 0)[1].Y_VIRSTRIDE = ToU32(130560)
        /\ RegVals("RKVDEC_REG_YUV_VIRSTRIDE", 0)[1].YUV_VIRSTRIDE = ToU32(195840)

\* config_regs has run on the 1920x1080 frame
C15_Witness == Is1080p /\ RegsWritten

\* width, height and the products of the strides are far below 2^31
StridesSmall ==
    /\ frm_in.dst_fmt.width \subseteq 0..12
    /\ frm_in.dst_fmt.height \subseteq 0..12

\* C16: hor = (bit_depth_luma_minus8 + 8) * width / 8, ver = height rounded
\* up to a multiple of 16, y = hor * ver, yuv = y, y + y/2, 2y or 0 for
\* chroma_format_idc 0, 1, 2 or other, all in u32; the PICPAR, Y_VIRSTRIDE
\* and YUV_VIRSTRIDE registers get hor/16, y/16 and yuv/16.
C16_StrideFormulas ==
    LET v   == cfg_strides(frm_in)
        idc == frm_in.sps.chroma_format_idc
        W   == FromBits(frm_in.dst_fmt.width)
        H   == FromBits(frm_in.dst_fmt.height)
        hor == ((frm_in.sps.bit_depth_luma_minus8 + 8) * W) \div 8
        ver == ((H + 15) \div 16) * 16
        y   == hor * ver
        yuv == IF idc = 0 THEN y
               ELSE IF idc = 1 THEN y + y \div 2
               ELSE IF idc = 2 THEN 2 * y
               ELSE 0
    IN  /\ StridesSmall =>
              /\ v.hor_virstride = ToU32(hor)
              /\ v.ver_virstride = ToU32(ver)
              /\ v.y_virstride = ToU32(y)
              /\ v.yuv_virstride = ToU32(yuv)
        \* beyond 2^32 the results wrap around
        /\ v.ver_virstride \cap {0, 1, 2, 3} = {}
        /\ frm_in.dst_fmt.height = Ones32 \ {1, 2, 3} => v.ver_virstride = Zero32
        /\ (frm_in.dst_fmt.width = Ones32 /\ frm_in.sps.bit_depth_luma_minus8 = 0)
              => v.hor_virstride = ToU32(536870911)
        /\ (frm_in.dst_fmt.width = {31} /\ frm_in.sps.bit_depth_luma_minus8 = 2)
              => v.hor_virstride = Zero32
        /\ v.y_virstride = Mul32(v.hor_virstride, v.ver_virstride)
        /\ idc = 1 => v.yuv_virstride
                        = Add32(v.y_virstride, Shr(v.y_virstride, 1))
        /\ idc = 2 => v.yuv_virstride = Add32(v.y_virstride, v.y_virstride)
        /\ idc = 0 => v.yuv_virstride = v.y_virstride
        /\ idc = 3 => v.yuv_virstride = Zero32
        /\ RegsWritten =>
              /\ RegVals("RKVDEC_REG_PICPAR", 0)
                    = << [Y_HOR_VIRSTRIDE  |-> Shr(v.hor_virstride, 4),
                          UV_HOR_VIRSTRIDE |-> Shr(v.hor_virstride, 4),
                          SLICE_NUM_HIGHBIT |-> TRUE,
                          SLICE_NUM_LOWBITS |-> 2047] >>
              /\ RegVals("RKVDEC_REG_Y_VIRSTRIDE", 0)
                    = << [Y_VIRSTRIDE |-> Shr(v.y_virstride, 4)] >>
              /\ RegVals("RKVDEC_REG_YUV_VIRSTRIDE", 0)
                    = << [YUV_VIRSTRIDE |-> Shr(v.yuv_virstride, 4)] >>
              /\ StridesSmall =>
                    /\ RegVals("RKVDEC_REG_PICPAR", 0)[1].Y_HOR_VIRSTRIDE
                          = ToU32(hor \div 16)
                    /\ RegVals("RKVDEC_REG_Y_VIRSTRIDE", 0)[1].Y_VIRSTRIDE
                          = ToU32(y \div 16)
                    /\ RegVals("RKVDEC_REG_YUV_VIRSTRIDE", 0)[1].YUV_VIRSTRIDE
                          = ToU32(yuv \div 16)

\* a 10-bit frame whose width is no multiple of 8 and whose height is no
\* multiple of 16 went through config_regs
C16_Witness ==
    /\ RegsWritten
    /\ frm_in.dst_fmt.width = ToU32(20)
    /\ frm_in.dst_fmt.height = ToU32(1080)
    /\ frm_in.sps.bit_depth_luma_minus8 = 2
    /\ frm_in.sps.chroma_format_idc = 2
    /\ RegVals("RKVDEC_REG_YUV_VIRSTRIDE", 0)[1].YUV_VIRSTRIDE = ToU32(3400)

\* the address part of the word written for DPB slot i
RefAddrWritten(i) ==
    RegVals(IF i < 15 THEN "RKVDEC_REG_H264_BASE_REFER"
                      ELSE "RKVDEC_REG_H264_BASE_REFER15", i)

\* the picture-store lookups config_regs has to make: the timestamps of the
\* active slots from slot i on, in slot order
RECURSIVE ActiveTimestamps(_)
ActiveTimestamps(i) ==
    IF i > 15 THEN << >>
    ELSE (IF frm_in.dec_param.dpb[i].active
          THEN << frm_in.dec_param.dpb[i].reference_ts >> ELSE << >>)
         \o ActiveTimestamps(i + 1)

\* C17: for every DPB slot the address written is the picture-store lookup
\* of the slot's timestamp if the slot is active and the lookup is not 0,
\* and the destination buffer's address otherwise; only active slots are
\* looked up; the address is not 0 unless the destination address is 0;
\* every slot's word carries the three usage flags.
C17_RefAddress ==
    RegsWritten =>
        /\ \A i \in 0..15 :
              LET e      == frm_in.dec_param.dpb[i]
                  lookup == IF e.reference_ts \in DOMAIN frm_in.store
                            THEN frm_in.store[e.reference_ts] ELSE 0
                  w      == RefAddrWritten(i)
              IN  /\ Len(w) = 1
                  /\ w[1].addr = IF e.active /\ lookup # 0 THEN lookup
                                 ELSE frm_in.dst_addr
                  /\ frm_in.dst_addr # 0 => w[1].addr # 0
                  /\ w[1].flags = {"RKVDEC_COLMV_USED_FLAG_REF",
                                   "RKVDEC_TOPFIELD_USED_REF",
                                   "RKVDEC_BOTFIELD_USED_REF"}
        /\ ref_log = ActiveTimestamps(0)

\* slot 0 was found in the store, slot 1 was active but missing, slot 2 was
\* inactive with a timestamp the store holds
C17_Witness ==
    /\ RegsWritten
    /\ frm_in.dst_addr # 0
    /\ frm_in.dec_param.dpb[0].active
    /\ RefAddrWritten(0)[1].addr = 8192
    /\ frm_in.dec_param.dpb[1].active
    /\ RefAddrWritten(1)[1].addr = frm_in.dst_addr
    /\ ~frm_in.dec_param.dpb[2].active
    /\ frm_in.dec_param.dpb[2].reference_ts \in DOMAIN frm_in.store
    /\ RefAddrWritten(2)[1].addr = frm_in.dst_addr
    /\ ref_log = << 10, 11, 12 >>

\* C18: the values written to RKVDEC_REG_CUR_POC0 and RKVDEC_REG_CUR_POC1
\* are identical, whatever the decode parameters are.
C18_CurPocIdentical ==
    RegsWritten =>
        RegVals("RKVDEC_REG_CUR_POC0", 0) = RegVals("RKVDEC_REG_CUR_POC1", 0)

(* ---------------------------------------------------------------------- *)
(* Properties of the frame pipeline as a whole                             *)
(* ---------------------------------------------------------------------- *)

\* the pipeline has run to its end for the current frame
FrameDone == frm_n > 0 /\ frm_pc = "idle"

\* C19: the register writes and picture-store lookups of a frame, and the
\* scaling-list region, the RPS region and the addressed PPS record after
\* it, are those the same frame gives as the first frame on the buffer as
\* it was allocated: nothing of an earlier frame is carried over.
C19_NoCarryOver ==
    FrameDone =>
        \A ub \in Shl32Outcomes :
            /\ regs_log = config_regs(frm_in).log
            /\ ref_log = config_regs(frm_in).refs
            /\ scaling_list
                 = reorder_scaling_list([b \in ScalingBytes |-> FillByte(frm_base)],
                                        frm_in.scaling).buf
            /\ hw_rps = assemble_hw_rps(frm_in.dec_param, ub).buf
            /\ PpsRecord(param_set, frm_in.pps.pic_parameter_set_id)
                 = PpsRecord(assemble_hw_pps(
                                 [w \in ParamSetWords |-> FillWord(frm_base)],
                                 frm_in.sps, frm_in.pps, frm_in.dec_param.dpb,
                                 ToU32(frm_in.priv_dma), ub),
                             frm_in.pps.pic_parameter_set_id)

\* the second frame has flat scaling lists, an empty DPB and a PPS id the
\* first frame used too; the first frame left other lists, reference
\* fields and PPS fields in the buffer
C19_Witness ==
    /\ FrameDone
    /\ frm_n = 2
    /\ \A k \in 0..5, j \in 0..63 : frm_in.scaling.scaling_list_8x8[k][j] = 16
    /\ \A i \in 0..15 : ~frm_in.dec_param.dpb[i].active
    /\ PpsRecord(frm_prev, frm_in.pps.pic_parameter_set_id)
          # [w \in 0..7 |-> FillWord(frm_base)]
    /\ PpsRecord(frm_prev, frm_in.pps.pic_parameter_set_id)
          # PpsRecord(param_set, frm_in.pps.pic_parameter_set_id)

(* ---------------------------------------------------------------------- *)
(* Specification of streaming: start_streaming, jobs, stop_streaming       *)
(* ---------------------------------------------------------------------- *)

\* rk3399_vdec_h264_init calls made on all contexts together
MaxInits == 2

\* rockchip_vpu_vq_is_coded(q) for a decoder context: the OUTPUT queue
\* carries the bitstream
rockchip_vpu_vq_is_coded(q) == q = "OUTPUT"

\* the codec_ops->init calls made so far on context c, failed ones included
InitCalls(c) ==
    Cardinality({n \in 1..Len(aux_calls[c]) : aux_calls[c][n] # "exit"})

RECURSIVE InitCallsUpTo(_)
\* the codec_ops->init calls made so far on the contexts 1..c
InitCallsUpTo(c) == IF c = 0 THEN 0 ELSE InitCalls(c) + InitCallsUpTo(c - 1)

\* the contexts are open, no queue streams, no auxiliary buffer exists
InitStream ==
    /\ streaming = [c \in Ctxs |-> [q \in Queues |-> FALSE]]
    /\ aux_buf = [c \in Ctxs |-> "none"]
    /\ aux_calls = [c \in Ctxs |-> << >>]
    /\ InitJob
    /\ ParkedFmt
    /\ ParkedChk
    /\ ParkedBrg
    /\ ParkedFin
    /\ ParkedHdr
    /\ ParkedRps
    /\ ParkedFrm

\* rk3399_vdec_h264_init; ok is the outcome of dma_alloc_coherent
rk3399_vdec_h264_init(c, ok) ==
    /\ aux_buf' = [aux_buf EXCEPT ![c] = IF ok THEN "allocated" ELSE "none"]
    /\ aux_calls' = [aux_calls EXCEPT
                        ![c] = Append(@, IF ok THEN "init" ELSE "init_enomem")]

\* rk3399_vdec_h264_exit: dma_free_coherent(priv->cpu), whatever it is
rk3399_vdec_h264_exit(c) ==
    /\ aux_buf' = [aux_buf EXCEPT
                      ![c] = IF @ = "allocated" THEN "freed" ELSE "freed_again"]
    /\ aux_calls' = [aux_calls EXCEPT ![c] = Append(@, "exit")]

\* VIDIOC_STREAMON on queue q of context c: vb2 calls
\* rockchip_vpu_start_streaming and marks the queue streaming if it returns 0
StartStreaming(c, q, ok) ==
    /\ ~streaming[c][q]
    /\ IF rockchip_vpu_vq_is_coded(q)
       THEN /\ InitCallsUpTo(MaxCtx) < MaxInits
            /\ rk3399_vdec_h264_init(c, ok)
            /\ streaming' = [streaming EXCEPT ![c][q] = ok]
       ELSE /\ ok
            /\ streaming' = [streaming EXCEPT ![c][q] = TRUE]
            /\ UNCHANGED <<aux_buf, aux_calls>>
    /\ UNCHANGED <<hdrVars, rpsVars, frmVars, jobVars, finVars, brgVars,
                   chkVars, fmtVars>>

\* VIDIOC_STREAMOFF on queue q of context c: the framework has called
\* v4l2_m2m_cancel_job, which returns once c is not the running context,
\* then vb2 calls rockchip_vpu_stop_streaming
StopStreaming(c, q) ==
    /\ streaming[c][q]
    /\ curr_ctx # c
    /\ IF rockchip_vpu_vq_is_coded(q)
       THEN rk3399_vdec_h264_exit(c)
       ELSE UNCHANGED <<aux_buf, aux_calls>>
    \* rockchip_vpu_return_bufs(): no buffer pair is left to decode
    /\ bufs' = [bufs EXCEPT ![c] = 0]
    /\ streaming' = [streaming EXCEPT ![c][q] = FALSE]
    /\ UNCHANGED <<curr_ctx, cur_job, njobs, nqueued, run_pc, run_ctx, run_job,
                   job_ctrls, steps, wd_pending, wd_pc, wd_ctx, hw_irq, spurious,
                   irq_pc, irq_ctx, irq_args, resets, finishes, stray,
                   clk_count, pm_count>>
    /\ UNCHANGED <<hdrVars, rpsVars, frmVars, finVars, brgVars, chkVars,
                   fmtVars>>

NextStream ==
    \/ \E c \in Ctxs, q \in Queues, ok \in BOOLEAN : StartStreaming(c, q, ok)
    \/ \E c \in Ctxs, q \in Queues : StopStreaming(c, q)
    \/ Next

\* streaming switched on and off around the jobs of the device
SpecStream == InitStream /\ [][NextStream]_vars

(* ---------------------------------------------------------------------- *)
(* Properties of streaming                                                 *)
(* ---------------------------------------------------------------------- *)

\* the thread is inside rk3399_vdec_h264_run, before one of its statements
InRunHook == run_pc \in {RunProgram[n] : n \in 1..Len(RunProgram)}

\* the init and exit calls of context c alternate, starting with init, and
\* a failed init is followed by another init only
AuxCallsAlternate(c) ==
    \A n \in 1..Len(aux_calls[c]) :
        IF aux_calls[c][n] = "exit"
        THEN n > 1 /\ aux_calls[c][n - 1] = "init"
        ELSE n = 1 \/ aux_calls[c][n - 1] # "init"

\* C20: rk3399_vdec_h264_run executes only while the context's auxiliary
\* buffer is allocated; init and exit alternate strictly, so the buffer is
\* never freed twice and a failed init is followed by neither exit nor run.
C20_AuxBufferLifetime ==
    /\ InRunHook => aux_buf[run_ctx] = "allocated"
    /\ \A c \in Ctxs : aux_buf[c] # "freed_again"
    /\ \A c \in Ctxs : AuxCallsAlternate(c)

(* ---------------------------------------------------------------------- *)
(* Specification of single rockchip_vpu_job_finish calls                   *)
(* ---------------------------------------------------------------------- *)

\* errno value of "return -EINVAL;"
EINVAL == 22

\* rockchip_vpu_enc_buf_finish(ctx, buf, bytesused): plane is
\* vb2_plane_size(buf, 0), header is ctx->vpu_dst_fmt->header_size
rockchip_vpu_enc_buf_finish(plane, header, bytesused) ==
    LET avail_size == plane - header
    IN  IF bytesused > avail_size THEN -EINVAL ELSE 0

\* ctx->buf_finish(ctx, &dst->vb2_buf, bytesused): the encoder's or the
\* decoder's function, as rockchip_vpu_open chose
ctx_buf_finish(in) ==
    IF in.encoder
    THEN rockchip_vpu_enc_buf_finish(in.plane, in.header, in.bytesused)
    ELSE rockchip_vpu_dec_buf_finish(in.ctx, in.bytesused)

\* v4l2_m2m_buf_done(buf, state): the state the buffer is returned with
v4l2_m2m_buf_done(state) == state

\* rockchip_vpu_job_finish from v4l2_m2m_src_buf_remove to
\* v4l2_m2m_job_finish: what happens to the two buffers, and whether the
\* framework was told that the job has ended
job_finish_bufs(in) ==
    IF ~in.has_src
    THEN \* if (WARN_ON(!src)) return;  dst was taken off its queue before
         [src |-> "none", dst |-> IF in.has_dst THEN "removed" ELSE "none",
          job_finish |-> FALSE]
    ELSE IF ~in.has_dst
    THEN \* if (WARN_ON(!dst)) return;
         [src |-> "removed", dst |-> "none", job_finish |-> FALSE]
    ELSE LET result == job_finish_result(ctx_buf_finish(in), in.result)
         IN  [src |-> v4l2_m2m_buf_done(result),
              dst |-> v4l2_m2m_buf_done(result),
              job_finish |-> TRUE]

\* the callers of rockchip_vpu_job_finish
FinishPaths == {"irq", "watchdog", "device_run"}

\* sizes of the destination plane and of the header the format reserves
FinPlaneSizes == {4096, 8192}

FinHeaderSizes == {0, 1024}

\* bytesused as the interrupt handler may report it
FinIrqBytes == {0, 4096, 8192}

\* one call about to be made: rockchip_vpu_irq_done passes on what the
\* interrupt handler gave it, rockchip_vpu_watchdog and device_run pass
\* (0, VB2_BUF_STATE_ERROR)
InitFinish ==
    /\ fin_pc = "call"
    /\ fin_in \in
         { [path |-> path, ctx |-> c, encoder |-> enc, plane |-> plane,
            header |-> header, bytesused |-> b, result |-> r,
            has_src |-> hs, has_dst |-> hd] :
              path \in FinishPaths, c \in Ctxs, enc \in BOOLEAN,
              plane \in FinPlaneSizes, header \in FinHeaderSizes,
              b \in FinIrqBytes,
              r \in {VB2_BUF_STATE_DONE, VB2_BUF_STATE_ERROR},
              hs \in BOOLEAN, hd \in BOOLEAN }
    /\ fin_in.path = "watchdog" =>
          /\ fin_in.bytesused = WatchdogFinishArgs.bytesused
          /\ fin_in.result = WatchdogFinishArgs.result
    /\ fin_in.path = "device_run" =>
          /\ fin_in.bytesused = 0
          /\ fin_in.result = VB2_BUF_STATE_ERROR
    /\ fin_out = << >>
    /\ InitJob
    /\ ParkedFmt
    /\ ParkedChk
    /\ ParkedBrg
    /\ ParkedHdr
    /\ ParkedRps
    /\ ParkedFrm
    /\ ParkedStrm

JobFinish ==
    /\ fin_pc = "call"
    /\ fin_out' = job_finish_bufs(fin_in)
    /\ fin_pc' = "done"
    /\ UNCHANGED fin_in
    /\ UNCHANGED <<hdrVars, rpsVars, jobVars, frmVars, strmVars, brgVars,
                   chkVars, fmtVars>>

NextFinish == JobFinish

\* single calls of rockchip_vpu_job_finish by each of its callers
SpecFinish == InitFinish /\ [][NextFinish]_vars

\* the call has ended the job
JobEnded == fin_pc = "done" /\ fin_out.job_finish

\* ctx->buf_finish refuses bytesused: an encoder context whose payload does
\* not fit behind the header
BufFinishFails ==
    fin_in.encoder /\ fin_in.bytesused > fin_in.plane - fin_in.header

\* C21: rockchip_vpu_job_finish completes the source and the destination
\* buffer of a job with one and the same state: VB2_BUF_STATE_ERROR when
\* the job was ended by the watchdog, by the error path of device_run, or
\* when ctx->buf_finish returned an error, otherwise exactly the result
\* the interrupt handler passed; no job ends with one buffer done and the
\* other in error or not completed.
C21_SameState ==
    JobEnded =>
        /\ fin_out.src = fin_out.dst
        /\ fin_out.src \in {VB2_BUF_STATE_DONE, VB2_BUF_STATE_ERROR}
        /\ IF fin_in.path \in {"watchdog", "device_run"} \/ BufFinishFails
           THEN fin_out.src = VB2_BUF_STATE_ERROR
           ELSE fin_out.src = fin_in.result

C21_Witness ==
    /\ JobEnded
    /\ fin_in.path = "irq"
    /\ fin_in.result = VB2_BUF_STATE_DONE
    /\ BufFinishFails
    /\ fin_out.src = VB2_BUF_STATE_ERROR

\* an interrupt-path job that ended with the handler's result
C21_WitnessDone ==
    /\ JobEnded
    /\ fin_in.path = "irq"
    /\ ~BufFinishFails
    /\ fin_out.dst = VB2_BUF_STATE_DONE

(* ---------------------------------------------------------------------- *)
(* DRM bridges: drm_bridge_attach, drm_bridge_detach and the chain walks   *)
(* ---------------------------------------------------------------------- *)

\* encoders of the device
MaxEncoders == 2

\* bridges the drivers provide, besides the one embedded in each encoder
MaxBridges == 2

NULL == 0

EBUSY == 16

ENOMEM == 12

\* the error an attach hook fails with
EPROBE_DEFER == 517

\* what list_del leaves in chain_node.next and chain_node.prev
LIST_POISON1 == -1

LIST_POISON2 == -2

\* enum drm_mode_status
MODE_OK == 0

MODE_BAD == -2

Encoders == 1..MaxEncoders

\* &encoder->bridge
EmbeddedBridge(encoder) == encoder

Bridges == 1..(MaxEncoders + MaxBridges)

IsEmbedded(bridge) == bridge <= MaxEncoders

\* encoder->dev
encoder_dev(encoder) == encoder

\* bridge->funcs: the hooks a bridge driver implements.  The embedded
\* bridge has none; the drivers differ in what they implement.
funcs(bridge) ==
    IF IsEmbedded(bridge) THEN {}
    ELSE IF (bridge - MaxEncoders) % 3 = 1
    THEN {"detach", "mode_fixup", "mode_valid", "disable", "post_disable",
          "mode_set", "pre_enable", "enable"}
    ELSE IF (bridge - MaxEncoders) % 3 = 2
    THEN {"attach", "detach", "atomic_duplicate_state", "mode_valid",
          "mode_set", "pre_enable", "enable", "atomic_disable",
          "atomic_post_disable", "atomic_pre_enable", "atomic_enable"}
    ELSE {"attach", "atomic_disable", "atomic_enable"}

\* position of a bridge in a chain
IndexOf(list, bridge) == CHOOSE i \in 1..Len(list) : list[i] = bridge

\* list_splice(&tmp_list, head) with the bridge alone on tmp_list: it is
\* inserted right after head, which is a bridge's chain_node or (NULL) the
\* list head encoder->bridge_chain itself
list_splice(list, head, bridge) ==
    LET pos == IF head = NULL THEN 0 ELSE IndexOf(list, head)
    IN  SubSeq(list, 1, pos) \o << bridge >> \o SubSeq(list, pos + 1, Len(list))

\* list_del(&bridge->chain_node)
list_del(list, bridge) == SelectSeq(list, LAMBDA x : x # bridge)

\* the record of a call
Call(name, encoder, bridge, previous, hook_ret, state_ok, nostate, ret, calls) ==
    [name |-> name, encoder |-> encoder, bridge |-> bridge,
     previous |-> previous, hook_ret |-> hook_ret, state_ok |-> state_ok,
     nostate |-> nostate, ret |-> ret, calls |-> calls]

\* the hook calls without the detach hook of the error path
attach_hook_calls_nodetach(bridge, upto) ==
    (IF "attach" \in funcs(bridge) THEN << <<"attach", bridge>> >> ELSE << >>)
    \o (IF upto # "err_reset_bridge" /\ "atomic_duplicate_state" \in funcs(bridge)
        THEN << <<"atomic_duplicate_state", bridge>> >> ELSE << >>)

\* the hook calls of drm_bridge_attach up to the point it stops at
attach_hook_calls(bridge, upto) ==
    (IF "attach" \in funcs(bridge) THEN << <<"attach", bridge>> >> ELSE << >>)
    \o (IF upto # "err_reset_bridge" /\ "atomic_duplicate_state" \in funcs(bridge)
        THEN << <<"atomic_duplicate_state", bridge>> >> ELSE << >>)
    \o (IF upto = "err_detach_bridge" /\ "detach" \in funcs(bridge)
        THEN << <<"detach", bridge>> >> ELSE << >>)

\* the test never finds the bridge attached
attach_busy_never(bridge) == FALSE

\* if (bridge->dev) return -EBUSY;
attach_busy(bridge) == b_dev[bridge] # NULL

\* drm_bridge_attach(encoder, bridge, previous): its result and the label
\* it leaves through; attach_ret is what the attach hook returns, state_ok
\* whether the bridge state could be duplicated
drm_bridge_attach(encoder, bridge, previous, attach_ret, state_ok) ==
    IF encoder = NULL \/ bridge = NULL
    THEN [ret |-> -EINVAL, at |-> "return"]
    ELSE IF previous # NULL /\ (b_dev[previous] = NULL
                                \/ b_encoder[previous] # encoder)
    THEN [ret |-> -EINVAL, at |-> "return"]
    ELSE IF attach_busy(bridge)
    THEN [ret |-> -EBUSY, at |-> "return"]
    ELSE IF "attach" \in funcs(bridge) /\ attach_ret < 0
    THEN [ret |-> attach_ret, at |-> "err_reset_bridge"]
    ELSE IF ~state_ok
    THEN [ret |-> -ENOMEM, at |-> "err_detach_bridge"]
    ELSE [ret |-> 0, at |-> "spliced"]

\* the new bridge always goes right behind the embedded bridge
attach_splice_head_first(encoder, bridge, previous) ==
    IF bridge = EmbeddedBridge(encoder) THEN NULL ELSE EmbeddedBridge(encoder)

\* the node the new bridge is spliced behind
attach_splice_head(encoder, bridge, previous) ==
    IF bridge = EmbeddedBridge(encoder) THEN NULL
    ELSE IF previous = NULL THEN EmbeddedBridge(encoder)
    ELSE previous

\* the arguments pass the checks at the head of drm_bridge_attach
attach_reaches_hooks(encoder, bridge, previous) ==
    /\ encoder # NULL
    /\ bridge # NULL
    /\ previous # NULL => (b_dev[previous] # NULL /\ b_encoder[previous] = encoder)
    /\ b_dev[bridge] = NULL

\* no call is under way
Idle == op.name = "none"

\* a driver, or drm_encoder_init for the embedded bridge, calls
\* drm_bridge_attach
Attach(encoder, bridge, previous, attach_ret, state_ok) ==
    /\ Idle
    \* the embedded bridge is attached by its own encoder, at the head
    /\ (bridge # NULL /\ IsEmbedded(bridge)) =>
           (encoder = bridge /\ previous = NULL)
    \* drivers attach their bridges to an encoder that was initialised
    /\ (bridge # NULL /\ ~IsEmbedded(bridge) /\ encoder # NULL) =>
           b_dev[EmbeddedBridge(encoder)] # NULL
    \* the outcome of a hook that is not called is no input
    /\ attach_ret # 0 =>
           /\ attach_reaches_hooks(encoder, bridge, previous)
           /\ "attach" \in funcs(bridge)
    /\ ~state_ok =>
           /\ attach_reaches_hooks(encoder, bridge, previous)
           /\ ~("attach" \in funcs(bridge) /\ attach_ret < 0)
    /\ LET out == drm_bridge_attach(encoder, bridge, previous, attach_ret,
                                    state_ok)
       IN  /\ op' = Call("drm_bridge_attach", encoder, bridge, previous,
                         attach_ret, state_ok, NULL, out.ret,
                         IF out.at = "return" THEN << >>
                         ELSE attach_hook_calls(bridge, out.at))
           /\ IF out.at = "return"
              THEN UNCHANGED <<bridge_chain, b_dev, b_encoder, b_node, b_obj>>
              ELSE IF out.at = "spliced"
              THEN /\ b_dev' = [b_dev EXCEPT ![bridge] = encoder_dev(encoder)]
                   /\ b_encoder' = [b_encoder EXCEPT ![bridge] = encoder]
                   /\ b_obj' = [b_obj EXCEPT ![bridge] = TRUE]
                   /\ b_node' = [b_node EXCEPT ![bridge] = "chain"]
                   /\ bridge_chain' =
                        [bridge_chain EXCEPT
                           ![encoder] = list_splice(@, attach_splice_head(
                                            encoder, bridge, previous), bridge)]
              ELSE \* bridge->dev = NULL; bridge->encoder = NULL; the node
                   \* is left on the tmp_list of the call, on no chain
                   /\ b_dev' = [b_dev EXCEPT ![bridge] = NULL]
                   /\ b_encoder' = [b_encoder EXCEPT ![bridge] = NULL]
                   /\ b_node' = [b_node EXCEPT ![bridge] = "unlinked"]
                   /\ UNCHANGED <<bridge_chain, b_obj>>
    /\ UNCHANGED <<hdrVars, rpsVars, jobVars, frmVars, strmVars, finVars,
                   chkVars, fmtVars>>

\* drm_bridge_detach(bridge)
Detach(bridge) ==
    /\ Idle
    /\ IF bridge = NULL
       THEN \* if (WARN_ON(!bridge)) return;
            /\ op' = Call("drm_bridge_detach", NULL, bridge, NULL, 0, TRUE,
                          NULL, 0, << >>)
            /\ UNCHANGED <<bridge_chain, b_dev, b_encoder, b_node, b_obj>>
       ELSE IF b_dev[bridge] = NULL
       THEN \* if (WARN_ON(!bridge->dev)) return;
            /\ op' = Call("drm_bridge_detach", NULL, bridge, NULL, 0, TRUE,
                          NULL, 0, << >>)
            /\ UNCHANGED <<bridge_chain, b_dev, b_encoder, b_node, b_obj>>
       ELSE /\ op' = Call("drm_bridge_detach", NULL, bridge, NULL, 0, TRUE,
                          NULL, 0,
                          IF "detach" \in funcs(bridge)
                          THEN << <<"detach", bridge>> >> ELSE << >>)
            \* drm_atomic_private_obj_fini(&bridge->base);
            /\ b_obj' = [b_obj EXCEPT ![bridge] = FALSE]
            \* list_del(&bridge->chain_node);
            /\ bridge_chain' = [bridge_chain EXCEPT
                                  ![b_encoder[bridge]] = list_del(@, bridge)]
            /\ b_node' = [b_node EXCEPT ![bridge] = "poison"]
            \* bridge->dev = NULL;
            /\ b_dev' = [b_dev EXCEPT ![bridge] = NULL]
            /\ UNCHANGED b_encoder
    /\ UNCHANGED <<hdrVars, rpsVars, jobVars, frmVars, strmVars, finVars,
                   chkVars, fmtVars>>

\* drm_bridge_chain_get_next_bridge(bridge)
drm_bridge_chain_get_next_bridge(bridge) ==
    IF bridge = NULL THEN NULL
    ELSE IF b_encoder[bridge] = NULL THEN NULL
    ELSE IF b_node[bridge] = "poison"
    THEN \* chain_node.next is LIST_POISON1, not the list head:
         \* list_next_entry() of it
         LIST_POISON1
    ELSE LET list == bridge_chain[b_encoder[bridge]]
         IN  IF IndexOf(list, bridge) = Len(list) THEN NULL
             ELSE list[IndexOf(list, bridge) + 1]

\* drm_bridge_chain_get_prev_bridge(bridge)
drm_bridge_chain_get_prev_bridge(bridge) ==
    IF bridge = NULL THEN NULL
    ELSE IF b_encoder[bridge] = NULL THEN NULL
    ELSE IF b_node[bridge] = "poison"
    THEN LIST_POISON2
    ELSE LET list == bridge_chain[b_encoder[bridge]]
         IN  IF IndexOf(list, bridge) = 1 THEN NULL
             ELSE list[IndexOf(list, bridge) - 1]

RECURSIVE chain_walk_from(_, _, _, _, _)
\* the forward walk ending at the first bridge that has neither hook
chain_walk_from_stops(list, i, atomic_hook, hook, nostate) ==
    IF i > Len(list) THEN << >>
    ELSE IF atomic_hook \in funcs(list[i])
    THEN IF list[i] = nostate
         THEN << >>
         ELSE << <<atomic_hook, list[i]>> >>
              \o chain_walk_from(list, i + 1, atomic_hook, hook, nostate)
    ELSE IF hook \in funcs(list[i])
    THEN << <<hook, list[i]>> >>
         \o chain_walk_from(list, i + 1, atomic_hook, hook, nostate)
    ELSE << >>

\* list_for_each_entry_from(bridge, &encoder->bridge_chain, chain_node) with
\* the body of the forward walks: the atomic hook if the bridge has it (the
\* walk returns when the atomic state holds no state of the bridge), else
\* the plain hook if the bridge has it
chain_walk_from(list, i, atomic_hook, hook, nostate) ==
    IF i > Len(list) THEN << >>
    ELSE IF atomic_hook \in funcs(list[i])
    THEN IF list[i] = nostate
         THEN \* if (WARN_ON(!bridge_state)) return;
              << >>
         ELSE << <<atomic_hook, list[i]>> >>
              \o chain_walk_from(list, i + 1, atomic_hook, hook, nostate)
    ELSE IF hook \in funcs(list[i])
    THEN << <<hook, list[i]>> >>
         \o chain_walk_from(list, i + 1, atomic_hook, hook, nostate)
    ELSE chain_walk_from(list, i + 1, atomic_hook, hook, nostate)

RECURSIVE chain_walk_reverse(_, _, _, _, _, _)
\* list_for_each_entry_reverse(iter, &encoder->bridge_chain, chain_node) with
\* the body of the backward walks; stop is the bridge at which the body
\* ends with "if (iter == bridge) break;", NULL when the body has no such
\* statement
chain_walk_reverse(list, i, stop, atomic_hook, hook, nostate) ==
    IF i < 1 THEN << >>
    ELSE LET rest == IF list[i] = stop THEN << >>
                     ELSE chain_walk_reverse(list, i - 1, stop, atomic_hook,
                                             hook, nostate)
         IN  IF atomic_hook \in funcs(list[i])
             THEN IF list[i] = nostate
                  THEN << >>
                  ELSE << <<atomic_hook, list[i]>> >> \o rest
             ELSE IF hook \in funcs(list[i])
             THEN << <<hook, list[i]>> >> \o rest
             ELSE rest

RECURSIVE chain_walk_until(_, _, _, _)
\* list_for_each_entry_from with the body of the walks that return at the
\* first bridge whose hook refuses the mode
chain_walk_until(list, i, hook, refuse) ==
    IF i > Len(list) THEN << >>
    ELSE IF hook \notin funcs(list[i])
    THEN \* continue;
         chain_walk_until(list, i + 1, hook, refuse)
    ELSE IF list[i] = refuse
    THEN << <<hook, list[i]>> >>
    ELSE << <<hook, list[i]>> >> \o chain_walk_until(list, i + 1, hook, refuse)

\* bridge->encoder->bridge_chain
ChainOf(bridge) == bridge_chain[b_encoder[bridge]]

\* the walk refused: its last hook call was on the refusing bridge
Refused(calls, refuse) ==
    Len(calls) > 0 /\ calls[Len(calls)][2] = refuse

drm_bridge_chain_mode_fixup(bridge, refuse) ==
    LET calls == chain_walk_until(ChainOf(bridge),
                                  IndexOf(ChainOf(bridge), bridge),
                                  "mode_fixup", refuse)
    IN  [calls |-> calls, ret |-> IF Refused(calls, refuse) THEN 0 ELSE 1]

drm_bridge_chain_mode_valid(bridge, refuse) ==
    LET calls == chain_walk_until(ChainOf(bridge),
                                  IndexOf(ChainOf(bridge), bridge),
                                  "mode_valid", refuse)
    IN  [calls |-> calls,
         ret |-> IF Refused(calls, refuse) THEN MODE_BAD ELSE MODE_OK]

drm_bridge_chain_disable(bridge) ==
    chain_walk_reverse(ChainOf(bridge), Len(ChainOf(bridge)), bridge,
                       "none", "disable", NULL)

drm_bridge_chain_post_disable(bridge) ==
    chain_walk_from(ChainOf(bridge), IndexOf(ChainOf(bridge), bridge),
                    "none", "post_disable", NULL)

drm_bridge_chain_mode_set(bridge) ==
    chain_walk_from(ChainOf(bridge), IndexOf(ChainOf(bridge), bridge),
                    "none", "mode_set", NULL)

\* the loop body has no "if (iter == bridge) break;"
drm_bridge_chain_pre_enable(bridge) ==
    chain_walk_reverse(ChainOf(bridge), Len(ChainOf(bridge)), NULL,
                       "none", "pre_enable", NULL)

drm_bridge_chain_enable(bridge) ==
    chain_walk_from(ChainOf(bridge), IndexOf(ChainOf(bridge), bridge),
                    "none", "enable", NULL)

drm_atomic_bridge_chain_disable(bridge, nostate) ==
    chain_walk_reverse(ChainOf(bridge), Len(ChainOf(bridge)), bridge,
                       "atomic_disable", "disable", nostate)

drm_atomic_bridge_chain_post_disable(bridge, nostate) ==
    chain_walk_from(ChainOf(bridge), IndexOf(ChainOf(bridge), bridge),
                    "atomic_post_disable", "post_disable", nostate)

drm_atomic_bridge_chain_pre_enable(bridge, nostate) ==
    chain_walk_reverse(ChainOf(bridge), Len(ChainOf(bridge)), bridge,
                       "atomic_pre_enable", "pre_enable", nostate)

drm_atomic_bridge_chain_enable(bridge, nostate) ==
    chain_walk_from(ChainOf(bridge), IndexOf(ChainOf(bridge), bridge),
                    "atomic_enable", "enable", nostate)

\* the walks that take the atomic state, the walks that may be refused,
\* and the others
AtomicWalks == {"drm_atomic_bridge_chain_disable",
                "drm_atomic_bridge_chain_post_disable",
                "drm_atomic_bridge_chain_pre_enable",
                "drm_atomic_bridge_chain_enable"}

ModeWalks == {"drm_bridge_chain_mode_fixup", "drm_bridge_chain_mode_valid"}

PlainWalks == {"drm_bridge_chain_disable", "drm_bridge_chain_post_disable",
               "drm_bridge_chain_mode_set", "drm_bridge_chain_pre_enable",
               "drm_bridge_chain_enable"}

\* the result of the walk called name
chain_walk(name, bridge, nostate, refuse) ==
    CASE name = "drm_bridge_chain_mode_fixup" ->
            drm_bridge_chain_mode_fixup(bridge, refuse)
      [] name = "drm_bridge_chain_mode_valid" ->
            drm_bridge_chain_mode_valid(bridge, refuse)
      [] name = "drm_bridge_chain_disable" ->
            [calls |-> drm_bridge_chain_disable(bridge), ret |-> 0]
      [] name = "drm_bridge_chain_post_disable" ->
            [calls |-> drm_bridge_chain_post_disable(bridge), ret |-> 0]
      [] name = "drm_bridge_chain_mode_set" ->
            [calls |-> drm_bridge_chain_mode_set(bridge), ret |-> 0]
      [] name = "drm_bridge_chain_pre_enable" ->
            [calls |-> drm_bridge_chain_pre_enable(bridge), ret |-> 0]
      [] name = "drm_bridge_chain_enable" ->
            [calls |-> drm_bridge_chain_enable(bridge), ret |-> 0]
      [] name = "drm_atomic_bridge_chain_disable" ->
            [calls |-> drm_atomic_bridge_chain_disable(bridge, nostate),
             ret |-> 0]
      [] name = "drm_atomic_bridge_chain_post_disable" ->
            [calls |-> drm_atomic_bridge_chain_post_disable(bridge, nostate),
             ret |-> 0]
      [] name = "drm_atomic_bridge_chain_pre_enable" ->
            [calls |-> drm_atomic_bridge_chain_pre_enable(bridge, nostate),
             ret |-> 0]
      [] name = "drm_atomic_bridge_chain_enable" ->
            [calls |-> drm_atomic_bridge_chain_enable(bridge, nostate),
             ret |-> 0]

\* the modeset helpers walk the chain of an attached bridge; nostate is the
\* bridge the atomic state holds no state of (NULL: it holds them all),
\* refuse the bridge whose hook refuses the mode (NULL: none does)
ChainWalk(name, bridge, nostate, refuse) ==
    /\ Idle
    /\ b_dev[bridge] # NULL
    /\ nostate # NULL => (name \in AtomicWalks /\ nostate \in
                            {ChainOf(bridge)[i] : i \in 1..Len(ChainOf(bridge))})
    /\ refuse # NULL => (name \in ModeWalks /\ refuse \in
                            {ChainOf(bridge)[i] : i \in 1..Len(ChainOf(bridge))})
    /\ LET out == chain_walk(name, bridge, nostate, refuse)
       IN  op' = Call(name, b_encoder[bridge], bridge, refuse, 0, TRUE,
                      nostate, out.ret, out.calls)
    /\ UNCHANGED <<bridge_chain, b_dev, b_encoder, b_node, b_obj>>
    /\ UNCHANGED <<hdrVars, rpsVars, jobVars, frmVars, strmVars, finVars,
                   chkVars, fmtVars>>

\* the call returns to its caller
Return ==
    /\ ~Idle
    /\ op' = Call("none", NULL, NULL, NULL, 0, TRUE, NULL, 0, << >>)
    /\ UNCHANGED <<bridge_chain, b_dev, b_encoder, b_node, b_obj>>
    /\ UNCHANGED <<hdrVars, rpsVars, jobVars, frmVars, strmVars, finVars,
                   chkVars, fmtVars>>

\* the encoders and bridges were allocated, the list heads initialised,
\* nothing was attached yet
InitBridge ==
    /\ bridge_chain = [e \in Encoders |-> << >>]
    /\ b_dev = [b \in Bridges |-> NULL]
    /\ b_encoder = [b \in Bridges |-> NULL]
    /\ b_node = [b \in Bridges |-> "unlinked"]
    /\ b_obj = [b \in Bridges |-> FALSE]
    /\ op = Call("none", NULL, NULL, NULL, 0, TRUE, NULL, 0, << >>)
    /\ InitJob
    /\ ParkedFmt
    /\ ParkedHdr
    /\ ParkedRps
    /\ ParkedFrm
    /\ ParkedStrm
    /\ ParkedFin
    /\ ParkedChk

NextBridge ==
    \/ \E encoder \in Encoders \cup {NULL}, bridge \in Bridges \cup {NULL},
          previous \in Bridges \cup {NULL},
          attach_ret \in {0, 1, -EPROBE_DEFER}, state_ok \in BOOLEAN :
          Attach(encoder, bridge, previous, attach_ret, state_ok)
    \/ \E bridge \in Bridges \cup {NULL} : Detach(bridge)
    \/ \E name \in PlainWalks, bridge \in Bridges :
          ChainWalk(name, bridge, NULL, NULL)
    \/ \E name \in AtomicWalks, bridge \in Bridges,
          nostate \in Bridges \cup {NULL} :
          ChainWalk(name, bridge, nostate, NULL)
    \/ \E name \in ModeWalks, bridge \in Bridges,
          refuse \in Bridges \cup {NULL} :
          ChainWalk(name, bridge, NULL, refuse)
    \/ Return

\* bridges attached to and detached from the encoders, and the chains walked
SpecBridge == InitBridge /\ [][NextBridge]_vars

(* ---------------------------------------------------------------------- *)
(* Properties of drm_bridge_attach and drm_bridge_detach                   *)
(* ---------------------------------------------------------------------- *)

\* the places (encoder, position) at which a bridge is linked
Places(bridge) ==
    {p \in UNION {{<<e, i>> : i \in 1..Len(bridge_chain[e])} : e \in Encoders} :
        bridge_chain[p[1]][p[2]] = bridge}

\* every bridge is linked into at most one chain, at most once
LinkedOnce == \A b \in Bridges : Cardinality(Places(b)) <= 1

\* the step is a call of drm_bridge_attach
AttachStep == Idle /\ op'.name = "drm_bridge_attach"

\* the step is a call of drm_bridge_attach on a bridge that is attached
AttachAttachedStep ==
    AttachStep /\ op'.bridge # NULL /\ b_dev[op'.bridge] # NULL

\* the call left every bridge and every chain as they were
BridgesUnchanged == UNCHANGED <<bridge_chain, b_dev, b_encoder, b_node, b_obj>>

\* C22 as stated: over any sequence of attach and detach calls every bridge
\* is linked into at most one encoder's chain and appears in it at most
\* once; drm_bridge_attach on a currently attached bridge returns -EBUSY
\* and changes neither the bridge nor any chain.
C22_AttachedIsBusy ==
    /\ []LinkedOnce
    /\ [][AttachAttachedStep => (op'.ret = -EBUSY /\ BridgesUnchanged)]_vars

\* the encoder and previous arguments of the call pass the checks made
\* before the bridge is looked at
AttachArgsValid ==
    /\ op'.encoder # NULL
    /\ op'.previous # NULL =>
          /\ b_dev[op'.previous] # NULL
          /\ b_encoder[op'.previous] = op'.encoder

\* C22: every bridge is linked into at most one encoder's chain and
\* appears in it at most once; drm_bridge_attach on a currently attached
\* bridge changes neither the bridge nor any chain and returns -EBUSY,
\* unless the encoder is NULL or previous is not attached to the encoder,
\* in which case it returns -EINVAL.
C22_AttachedIsRefused ==
    /\ []LinkedOnce
    /\ [][AttachAttachedStep =>
             /\ BridgesUnchanged
             /\ op'.ret = IF AttachArgsValid THEN -EBUSY ELSE -EINVAL]_vars

\* a bridge attached to one encoder was offered to the other one
C22_Witness ==
    /\ op.name = "drm_bridge_attach"
    /\ op.ret = -EBUSY
    /\ op.encoder # b_encoder[op.bridge]
    /\ ~IsEmbedded(op.bridge)
    /\ Len(bridge_chain[op.encoder]) > 0

\* the last call was a successful drm_bridge_attach
Attached == op.name = "drm_bridge_attach" /\ op.ret = 0

\* C23: after a successful drm_bridge_attach(encoder, bridge, previous)
\* with previous non-NULL the bridge is the immediate successor of previous
\* (drm_bridge_chain_get_next_bridge(previous) is the bridge and
\* drm_bridge_chain_get_prev_bridge(bridge) is previous); with previous
\* NULL a driver's bridge is linked directly after the encoder's embedded
\* bridge; bridge->encoder is the encoder; the bridges that were in the
\* chain keep their relative order, and the other chains are untouched.
C23_AttachPosition ==
    /\ [](Attached =>
            /\ b_encoder[op.bridge] = op.encoder
            /\ op.previous # NULL =>
                  /\ drm_bridge_chain_get_next_bridge(op.previous) = op.bridge
                  /\ drm_bridge_chain_get_prev_bridge(op.bridge) = op.previous
            /\ (op.previous = NULL /\ ~IsEmbedded(op.bridge)) =>
                  /\ drm_bridge_chain_get_next_bridge(
                         EmbeddedBridge(op.encoder)) = op.bridge
                  /\ drm_bridge_chain_get_prev_bridge(op.bridge)
                         = EmbeddedBridge(op.encoder))
    /\ [][(AttachStep /\ op'.ret = 0) =>
             /\ list_del(bridge_chain'[op'.encoder], op'.bridge)
                   = bridge_chain[op'.encoder]
             /\ Cardinality({i \in 1..Len(bridge_chain'[op'.encoder]) :
                    bridge_chain'[op'.encoder][i] = op'.bridge}) = 1
             /\ \A e \in Encoders \ {op'.encoder} :
                   bridge_chain'[e] = bridge_chain[e]]_vars

\* a bridge was attached between its previous bridge and the bridge that
\* followed it
C23_Witness ==
    /\ Attached
    /\ op.previous # NULL
    /\ drm_bridge_chain_get_next_bridge(op.bridge) \in Bridges
    /\ drm_bridge_chain_get_prev_bridge(op.bridge) = op.previous

\* the arguments of the call are refused: encoder or bridge NULL, or
\* previous not attached, or attached to another encoder
AttachArgsRefused ==
    \/ op'.encoder = NULL
    \/ op'.bridge = NULL
    \/ /\ op'.previous # NULL
       /\ \/ b_dev[op'.previous] = NULL
          \/ b_encoder[op'.previous] # op'.encoder

\* the attach hook of the call fails
AttachHookFails ==
    /\ ~AttachArgsRefused
    /\ b_dev[op'.bridge] = NULL
    /\ "attach" \in funcs(op'.bridge)
    /\ op'.hook_ret < 0

\* the state duplication of the call fails, after the attach hook (if the
\* bridge has one) succeeded
AttachDupFails ==
    /\ ~AttachArgsRefused
    /\ b_dev[op'.bridge] = NULL
    /\ ~AttachHookFails
    /\ ~op'.state_ok

\* the calls of hook on bridge among calls
HookCalls(calls, hook, bridge) ==
    Cardinality({i \in 1..Len(calls) : calls[i] = <<hook, bridge>>})

\* the results of the failing cases
AttachErrors ==
    /\ AttachArgsRefused => op'.ret = -EINVAL
    /\ AttachHookFails => op'.ret = op'.hook_ret
    /\ AttachDupFails => op'.ret = -ENOMEM

\* C24 as stated: drm_bridge_attach returns -EINVAL when encoder or bridge
\* is NULL or when previous is non-NULL but not attached or attached to a
\* different encoder, and the hook's error or -ENOMEM when the attach hook
\* or the state duplication fails; in every failing case the chain is
\* unchanged and bridge->dev and bridge->encoder are NULL on return; when
\* the state duplication fails after a successful attach hook the detach
\* hook is called exactly once.
C24_FailedAttachResets ==
    [][AttachStep =>
         /\ AttachErrors
         /\ (AttachArgsRefused \/ AttachHookFails \/ AttachDupFails) =>
               /\ bridge_chain' = bridge_chain
               /\ op'.bridge # NULL =>
                     /\ b_dev'[op'.bridge] = NULL
                     /\ b_encoder'[op'.bridge] = NULL
         /\ (AttachDupFails /\ "attach" \in funcs(op'.bridge)) =>
               HookCalls(op'.calls, "detach", op'.bridge) = 1]_vars

\* C24: drm_bridge_attach returns -EINVAL when encoder or bridge is NULL
\* or when previous is non-NULL but not attached or attached to a
\* different encoder, and then leaves the bridge and every chain as they
\* were; it returns the hook's error or -ENOMEM when the attach hook or the
\* state duplication fails, and then every chain is unchanged and
\* bridge->dev and bridge->encoder are NULL on return; when the state
\* duplication fails the detach hook is called exactly once if the bridge
\* has one, and it is not called when the attach hook fails.
C24_FailedAttach ==
    [][AttachStep =>
         /\ AttachErrors
         /\ AttachArgsRefused => BridgesUnchanged
         /\ (AttachHookFails \/ AttachDupFails) =>
               /\ bridge_chain' = bridge_chain
               /\ b_dev'[op'.bridge] = NULL
               /\ b_encoder'[op'.bridge] = NULL
               /\ \A b \in Bridges \ {op'.bridge} :
                     /\ b_dev'[b] = b_dev[b]
                     /\ b_encoder'[b] = b_encoder[b]
         /\ AttachDupFails =>
               HookCalls(op'.calls, "detach", op'.bridge)
                  = IF "detach" \in funcs(op'.bridge) THEN 1 ELSE 0
         /\ AttachHookFails =>
               HookCalls(op'.calls, "detach", op'.bridge) = 0]_vars

\* the state duplication failed after the attach hook of a bridge with a
\* detach hook had succeeded
C24_Witness ==
    /\ op.name = "drm_bridge_attach"
    /\ op.ret = -ENOMEM
    /\ HookCalls(op.calls, "attach", op.bridge) = 1
    /\ HookCalls(op.calls, "detach", op.bridge) = 1
    /\ b_dev[op.bridge] = NULL
    /\ b_encoder[op.bridge] = NULL
    /\ Len(bridge_chain[op.encoder]) > 1

(* ---------------------------------------------------------------------- *)
(* Properties of the chain walks                                           *)
(* ---------------------------------------------------------------------- *)

\* the bridges from bridge to the last one of its chain, first to last
FromBridge(bridge) ==
    SubSeq(ChainOf(bridge), IndexOf(ChainOf(bridge), bridge),
           Len(ChainOf(bridge)))

\* the bridges before bridge in its chain
BeforeBridge(bridge) ==
    {ChainOf(bridge)[i] : i \in 1..(IndexOf(ChainOf(bridge), bridge) - 1)}

Reverse(seq) == [i \in 1..Len(seq) |-> seq[Len(seq) + 1 - i]]

\* the hook a walk calls on a bridge: the atomic one if the bridge has it,
\* else the plain one if the bridge has it, else none
HookOf(bridge, atomic_hook, hook) ==
    IF atomic_hook \in funcs(bridge) THEN atomic_hook
    ELSE IF hook \in funcs(bridge) THEN hook
    ELSE "none"

\* one call of its hook on every bridge of seq that has one, in the order
\* of seq
HooksOn(seq, atomic_hook, hook) ==
    LET with == SelectSeq(seq, LAMBDA b : HookOf(b, atomic_hook, hook) # "none")
    IN  [i \in 1..Len(with) |-> <<HookOf(with[i], atomic_hook, hook), with[i]>>]

\* the enable and disable walks without the atomic state
PlainEnableDisable ==
    /\ op.name = "drm_bridge_chain_enable" =>
          op.calls = HooksOn(FromBridge(op.bridge), "none", "enable")
    /\ op.name = "drm_bridge_chain_disable" =>
          op.calls = HooksOn(Reverse(FromBridge(op.bridge)), "none", "disable")

UpToNoState(calls, nostate, atomic_hook) ==
    IF \E i \in 1..Len(calls) : calls[i] = <<atomic_hook, nostate>>
    THEN SubSeq(calls, 1,
                (CHOOSE i \in 1..Len(calls) :
                    calls[i] = <<atomic_hook, nostate>>) - 1)
    ELSE calls

BridgesOf(calls) == [i \in 1..Len(calls) |-> calls[i][2]]

\* C29: every chain walk started at a bridge B invokes hooks only on B and
\* on bridges after B in the chain, never on a bridge preceding B; in
\* particular drm_bridge_chain_pre_enable(B) and
\* drm_atomic_bridge_chain_pre_enable(B) call the pre-enable hooks on the
\* same bridges in the same last-to-first order.
C29_WalksStartAtBridge ==
    /\ op.name \in AtomicWalks \cup ModeWalks \cup PlainWalks =>
          \A i \in 1..Len(op.calls) :
              op.calls[i][2] \notin BeforeBridge(op.bridge)
    /\ \A b \in Bridges :
          b_dev[b] # NULL =>
              BridgesOf(drm_bridge_chain_pre_enable(b))
                 = BridgesOf(drm_atomic_bridge_chain_pre_enable(b, NULL))

\* C30: drm_bridge_attach followed by drm_bridge_detach returns the bridge
\* to its unattached state: bridge->dev and bridge->encoder are both NULL,
\* the bridge is in no chain, drm_bridge_chain_get_next_bridge and
\* drm_bridge_chain_get_prev_bridge on it return NULL, and the bridge can
\* be attached again.
C30_DetachRestores ==
    (op.name = "drm_bridge_detach" /\ op.bridge # NULL) =>
        /\ b_dev[op.bridge] = NULL
        /\ b_encoder[op.bridge] = NULL
        /\ Places(op.bridge) = {}
        /\ drm_bridge_chain_get_next_bridge(op.bridge) = NULL
        /\ drm_bridge_chain_get_prev_bridge(op.bridge) = NULL
        /\ \A e \in Encoders :
              (b_dev[EmbeddedBridge(e)] # NULL /\ ~IsEmbedded(op.bridge)) =>
                  drm_bridge_attach(e, op.bridge, NULL, 0, TRUE).ret = 0

\* ---------------------------------------------------------------------
\* The atomic check of a bridge chain: the bus formats are negotiated
\* from the last bridge of the encoder's chain back to the bridge the
\* check was called on, then the check hooks run in the same direction.
\* ---------------------------------------------------------------------

ENOTSUPP == 524

MEDIA_BUS_FMT_FIXED == "MEDIA_BUS_FMT_FIXED"

\* the value of a format field nothing was written to
FMT_NONE == "0"

BusFmts ==
    {MEDIA_BUS_FMT_FIXED, "RGB888_1X24", "RGB666_1X18", "RGB666_1X7X3_SPWG"}

\* the drivers a bridge of the chain may come from: one without any atomic
\* hook, the LVDS encoder, and two whose format hooks offer several
\* formats or none
Drivers == {"dummy", "lvds-encoder", "transcoder", "dsi"}

\* what the device tree gave the LVDS encoder
lvds_encoder ==
    [input_fmt |-> "RGB888_1X24", output_fmt |-> "RGB666_1X7X3_SPWG"]

\* the atomic hooks in bridge->funcs
atomic_funcs(bridge) ==
    CASE fmt_drv[bridge] = "lvds-encoder" ->
             {"atomic_get_input_bus_fmts", "atomic_check"}
      [] fmt_drv[bridge] = "transcoder" ->
             {"atomic_get_input_bus_fmts", "atomic_get_output_bus_fmts",
              "mode_fixup"}
      [] fmt_drv[bridge] = "dsi" ->
             {"atomic_get_input_bus_fmts", "atomic_get_output_bus_fmts",
              "atomic_check", "mode_fixup"}
      [] OTHER -> {}

\* input_fmts[] as the hook fills it: its length is *num_input_fmts
lvds_atomic_get_input_bus_fmts(output_fmt) ==
    IF output_fmt = MEDIA_BUS_FMT_FIXED
          \/ output_fmt = lvds_encoder.output_fmt
    THEN <<lvds_encoder.input_fmt>>
    ELSE << >>

\* bridge->funcs->atomic_get_input_bus_fmts(): the input formats the bridge
\* can take to produce output_fmt
atomic_get_input_bus_fmts(bridge, output_fmt) ==
    CASE fmt_drv[bridge] = "lvds-encoder" ->
             lvds_atomic_get_input_bus_fmts(output_fmt)
      [] fmt_drv[bridge] = "transcoder" ->
             CASE output_fmt = "RGB666_1X7X3_SPWG" ->
                      <<"RGB666_1X18", "RGB888_1X24">>
               [] output_fmt = "RGB666_1X18" -> <<"RGB666_1X18">>
               [] output_fmt = "RGB888_1X24" -> <<"RGB888_1X24">>
               [] OTHER -> << >>
      [] fmt_drv[bridge] = "dsi" ->
             CASE output_fmt = "RGB888_1X24" -> <<MEDIA_BUS_FMT_FIXED>>
               [] output_fmt = MEDIA_BUS_FMT_FIXED -> <<MEDIA_BUS_FMT_FIXED>>
               [] OTHER -> << >>
      [] OTHER -> << >>

\* bridge->funcs->atomic_get_output_bus_fmts(): the output formats the last
\* bridge offers
atomic_get_output_bus_fmts(bridge) ==
    CASE fmt_drv[bridge] = "transcoder" ->
             <<"RGB666_1X18", "RGB666_1X7X3_SPWG">>
      [] OTHER -> << >>

\* the bridge states of the atomic state and the record of the hook calls
BusState(cfg, log) == [cfg |-> cfg, log |-> log]

\* the write of the output format alone
set_bus_cfg_output_only(st, bridge, input_fmt, output_fmt) ==
    [st EXCEPT !.cfg[bridge].output = output_fmt]

\* cur_state->input_bus_cfg.fmt = ...; cur_state->output_bus_cfg.fmt = ...
set_bus_cfg(st, bridge, input_fmt, output_fmt) ==
    [st EXCEPT !.cfg[bridge] = [input |-> input_fmt, output |-> output_fmt]]

hook_called(st, hook, bridge) ==
    [st EXCEPT !.log = Append(st.log, <<hook, bridge>>)]

RECURSIVE select_bus_fmt_recursive(_, _, _, _, _)
RECURSIVE try_bus_fmts(_, _, _, _, _, _)

\* the loops of select_bus_fmt_recursive() and
\* drm_atomic_bridge_chain_select_bus_fmts() with only their first round
try_bus_fmts_first_only(env, first, bridge, fmts, i, st) ==
    Then(select_bus_fmt_recursive(env, first, bridge, fmts[i], st),
         LAMBDA r : [ret |-> r.ret, st |-> r.st, i |-> i])

\* for (i = 0; i < num; i++) { ret = select_bus_fmt_recursive(first,
\* bridge, ..., fmts[i]); if (ret != -ENOTSUPP) break; }
try_bus_fmts(env, first, bridge, fmts, i, st) ==
    Then(select_bus_fmt_recursive(env, first, bridge, fmts[i], st),
         LAMBDA r :
            IF r.ret # -ENOTSUPP
            THEN [ret |-> r.ret, st |-> r.st, i |-> i]
            ELSE IF i = Len(fmts)
            THEN [ret |-> r.ret, st |-> r.st, i |-> i + 1]
            ELSE try_bus_fmts(env, first, bridge, fmts, i + 1, r.st))

\* env.nostate is the bridge the atomic state holds no state for, env.nomem
\* the bridge whose input format table cannot be allocated
select_bus_fmt_recursive(env, first, cur, out_bus_fmt, st) ==
    LET prev == drm_bridge_chain_get_prev_bridge(cur)
    IN  IF cur = env.nostate
        THEN [ret |-> -EINVAL, st |-> st]
        ELSE IF "atomic_get_input_bus_fmts" \notin atomic_funcs(cur)
        THEN IF cur # first
             THEN Then(select_bus_fmt_recursive(env, first, prev,
                                                MEDIA_BUS_FMT_FIXED, st),
                       LAMBDA r :
                          IF r.ret # 0
                          THEN r
                          ELSE [ret |-> 0,
                                st |-> set_bus_cfg(r.st, cur,
                                           MEDIA_BUS_FMT_FIXED, out_bus_fmt)])
             ELSE [ret |-> 0,
                   st |-> set_bus_cfg(st, cur, MEDIA_BUS_FMT_FIXED,
                                      out_bus_fmt)]
        ELSE LET in_bus_fmts == atomic_get_input_bus_fmts(cur, out_bus_fmt)
                 \* the hook is called for the number of formats, and again
                 \* to fill the table
                 counted == hook_called(st, "atomic_get_input_bus_fmts", cur)
                 filled == hook_called(counted,
                                       "atomic_get_input_bus_fmts", cur)
             IN  IF Len(in_bus_fmts) = 0
                 THEN [ret |-> -ENOTSUPP, st |-> counted]
                 ELSE IF cur = env.nomem
                 THEN [ret |-> -ENOMEM, st |-> counted]
                 ELSE IF first = cur
                 THEN [ret |-> 0,
                       st |-> set_bus_cfg(filled, cur, in_bus_fmts[1],
                                          out_bus_fmt)]
                 ELSE Then(try_bus_fmts(env, first, prev, in_bus_fmts, 1,
                                        filled),
                           LAMBDA r :
                              IF r.ret = 0
                              THEN [ret |-> 0,
                                    st |-> set_bus_cfg(r.st, cur,
                                               in_bus_fmts[r.i], out_bus_fmt)]
                              ELSE [ret |-> r.ret, st |-> r.st])

\* the single candidate of a last bridge without atomic_get_output_bus_fmts
conn_out_bus_fmts ==
    IF Len(conn_fmts) # 0
    THEN <<conn_fmts[1]>>
    ELSE <<MEDIA_BUS_FMT_FIXED>>

\* env.nomem_out: the output format table cannot be allocated
drm_atomic_bridge_chain_select_bus_fmts(env, bridge, st) ==
    LET list == bridge_chain[b_encoder[bridge]]
        last_bridge == list[Len(list)]
        has_hook == "atomic_get_output_bus_fmts" \in atomic_funcs(last_bridge)
        counted == IF has_hook
                   THEN hook_called(st, "atomic_get_output_bus_fmts",
                                    last_bridge)
                   ELSE st
        num_out_bus_fmts ==
            IF has_hook
            THEN Len(atomic_get_output_bus_fmts(last_bridge))
            ELSE 1
        filled == IF has_hook
                  THEN hook_called(counted, "atomic_get_output_bus_fmts",
                                   last_bridge)
                  ELSE counted
        out_bus_fmts == IF has_hook
                        THEN atomic_get_output_bus_fmts(last_bridge)
                        ELSE conn_out_bus_fmts
    IN  IF last_bridge = env.nostate
        THEN [ret |-> -EINVAL, st |-> st]
        ELSE IF num_out_bus_fmts = 0
        THEN [ret |-> -ENOTSUPP, st |-> counted]
        ELSE IF env.nomem_out
        THEN [ret |-> -ENOMEM, st |-> counted]
        ELSE Then(try_bus_fmts(env, bridge, last_bridge, out_bus_fmts, 1,
                               filled),
                  LAMBDA r : [ret |-> r.ret, st |-> r.st])

\* what the atomic_check hook of a bridge returns: an error of its own for
\* the bridges that refuse the new state
atomic_check(bridge, refusing) ==
    IF bridge \in refusing THEN -(EBUSY + bridge) ELSE 0

\* what the mode_fixup hook of a bridge returns
mode_fixup(bridge, refusing) == bridge \notin refusing

drm_atomic_bridge_check(env, bridge, st) ==
    IF "atomic_check" \in atomic_funcs(bridge)
    THEN IF bridge = env.nostate
         THEN [ret |-> -EINVAL, st |-> st]
         ELSE [ret |-> atomic_check(bridge, env.refusing),
               st |-> hook_called(st, "atomic_check", bridge)]
    ELSE IF "mode_fixup" \in atomic_funcs(bridge)
    THEN [ret |-> IF mode_fixup(bridge, env.refusing) THEN 0 ELSE -EINVAL,
          st |-> hook_called(st, "mode_fixup", bridge)]
    ELSE [ret |-> 0, st |-> st]

RECURSIVE chain_check_reverse(_, _, _, _, _)

\* the walk of drm_atomic_bridge_chain_check() without its early return
chain_check_reverse_all(env, list, i, bridge, st) ==
    Then(drm_atomic_bridge_check(env, list[i], st),
         LAMBDA r :
            IF list[i] = bridge \/ i = 1
            THEN r
            ELSE Then(chain_check_reverse(env, list, i - 1, bridge, r.st),
                      LAMBDA rest :
                         IF r.ret # 0
                         THEN [ret |-> r.ret, st |-> rest.st]
                         ELSE rest))

\* list_for_each_entry_reverse(iter, &encoder->bridge_chain, chain_node) of
\* drm_atomic_bridge_chain_check(), from position i of the list
chain_check_reverse(env, list, i, bridge, st) ==
    Then(drm_atomic_bridge_check(env, list[i], st),
         LAMBDA r :
            IF r.ret # 0
            THEN r
            ELSE IF list[i] = bridge \/ i = 1
            THEN [ret |-> 0, st |-> r.st]
            ELSE chain_check_reverse(env, list, i - 1, bridge, r.st))

\* the check runs on the states negotiated so far only if the negotiation
\* returned 0; select is the result of the negotiation
drm_atomic_bridge_chain_check(env, bridge, st) ==
    Then(drm_atomic_bridge_chain_select_bus_fmts(env, bridge, st),
         LAMBDA select :
            IF select.ret # 0
            THEN [ret |-> select.ret, st |-> select.st, select |-> select]
            ELSE Then(chain_check_reverse(env, ChainOf(bridge),
                                          Len(ChainOf(bridge)), bridge,
                                          select.st),
                      LAMBDA r :
                         [ret |-> r.ret, st |-> r.st, select |-> select]))

\* the chains drm_bridge_attach() can build on an encoder: its embedded
\* bridge at the head, then driver bridges, each at most once
CheckChains ==
    { <<EmbeddedBridge(e)>> \o tail :
         e \in {enc \in Encoders : \A o \in Encoders : enc <= o},
         tail \in { t \in UNION { [1..n -> Bridges] : n \in 0..MaxBridges } :
                       /\ \A i \in DOMAIN t : ~IsEmbedded(t[i])
                       /\ \A i, j \in DOMAIN t : t[i] = t[j] => i = j } }

\* bus_formats of the connector's display_info
ConnFmts == { << >>, <<"RGB888_1X24", "RGB666_1X7X3_SPWG">> }

CheckEnv(nostate, nomem, nomem_out, refusing) ==
    [nostate |-> nostate, nomem |-> nomem, nomem_out |-> nomem_out,
     refusing |-> refusing]

CheckCall(name, bridge, env, ret, select_ret, calls) ==
    [name |-> name, bridge |-> bridge, env |-> env, ret |-> ret,
     select_ret |-> select_ret, calls |-> calls]

NoCheck == CheckCall("none", NULL, CheckEnv(NULL, NULL, FALSE, {}), 0, 0, << >>)

\* a chain was attached to the first encoder, no state was checked yet
InitCheck ==
    /\ \E list \in CheckChains :
          LET on == {list[i] : i \in DOMAIN list}
          IN  /\ bridge_chain = [e \in Encoders |->
                                   IF e = list[1] THEN list ELSE << >>]
              /\ b_dev = [b \in Bridges |->
                            IF b \in on THEN encoder_dev(list[1]) ELSE NULL]
              /\ b_encoder = [b \in Bridges |->
                                IF b \in on THEN list[1] ELSE NULL]
              /\ b_node = [b \in Bridges |->
                             IF b \in on THEN "chain" ELSE "unlinked"]
              /\ b_obj = [b \in Bridges |-> b \in on]
              /\ fmt_drv \in [Bridges -> Drivers]
              /\ \A b \in Bridges :
                    (IsEmbedded(b) \/ b \notin on) => fmt_drv[b] = "dummy"
    /\ op = Call("none", NULL, NULL, NULL, 0, TRUE, NULL, 0, << >>)
    /\ conn_fmts \in ConnFmts
    /\ bus_cfg = [b \in Bridges |-> [input |-> FMT_NONE, output |-> FMT_NONE]]
    /\ chk = NoCheck
    /\ InitJob
    /\ ParkedFmt
    /\ ParkedHdr
    /\ ParkedRps
    /\ ParkedFrm
    /\ ParkedStrm
    /\ ParkedFin

\* drm_atomic_bridge_chain_check(bridge, crtc_state, conn_state)
ChainCheck(bridge, nostate, nomem, nomem_out, refusing) ==
    /\ chk.name = "none"
    /\ b_encoder[bridge] # NULL
    /\ b_node[bridge] = "chain"
    \* at most one thing is missing in a call, and hooks refuse only when
    \* nothing is missing
    /\ nostate # NULL => (nomem = NULL /\ ~nomem_out /\ refusing = {})
    /\ nomem # NULL => (~nomem_out /\ refusing = {})
    /\ nomem_out => refusing = {}
    /\ (refusing \cup ({nostate, nomem} \ {NULL})) \subseteq
           {b \in Bridges : b_encoder[b] = b_encoder[bridge]}
    /\ \E r \in {drm_atomic_bridge_chain_check(
                     CheckEnv(nostate, nomem, nomem_out, refusing), bridge,
                     BusState(bus_cfg, << >>))} :
          /\ bus_cfg' = r.st.cfg
          /\ chk' = CheckCall("drm_atomic_bridge_chain_check", bridge,
                              CheckEnv(nostate, nomem, nomem_out, refusing),
                              r.ret, r.select.ret, r.st.log)
    /\ UNCHANGED <<fmt_drv, conn_fmts>>
    /\ UNCHANGED <<hdrVars, rpsVars, jobVars, frmVars, strmVars, finVars,
                   brgVars, fmtVars>>

\* the caller goes on with the result; the bridge states keep the formats
CheckReturn ==
    /\ chk.name # "none"
    /\ chk' = NoCheck
    /\ UNCHANGED <<fmt_drv, conn_fmts, bus_cfg>>
    /\ UNCHANGED <<hdrVars, rpsVars, jobVars, frmVars, strmVars, finVars,
                   brgVars, fmtVars>>

\* the bridges of the chain that was attached
OnChain == {b \in Bridges : b_encoder[b] # NULL}

NextCheck ==
    \/ /\ chk.name = "none"
       /\ \E bridge \in OnChain, refusing \in SUBSET OnChain :
             ChainCheck(bridge, NULL, NULL, FALSE, refusing)
    \/ /\ chk.name = "none"
       /\ \E bridge \in OnChain, nostate \in OnChain :
             ChainCheck(bridge, nostate, NULL, FALSE, {})
    \/ /\ chk.name = "none"
       /\ \E bridge \in OnChain, nomem \in OnChain :
             ChainCheck(bridge, NULL, nomem, FALSE, {})
    \/ /\ chk.name = "none"
       /\ \E bridge \in OnChain : ChainCheck(bridge, NULL, NULL, TRUE, {})
    \/ CheckReturn

SpecCheck == InitCheck /\ [][NextCheck]_vars

Checked == chk.name = "drm_atomic_bridge_chain_check"

NegotiationHooks == {"atomic_get_input_bus_fmts", "atomic_get_output_bus_fmts"}

CheckHooks == {"atomic_check", "mode_fixup"}

\* the check hook of a bridge: atomic_check if it has one, else mode_fixup
\* if it has one, else none
CheckHookOf(bridge) ==
    IF "atomic_check" \in atomic_funcs(bridge) THEN "atomic_check"
    ELSE IF "mode_fixup" \in atomic_funcs(bridge) THEN "mode_fixup"
    ELSE "none"

\* what the check of one bridge comes to, given the bridges that refuse
CheckHookResult(bridge, refusing) ==
    IF bridge \notin refusing \/ CheckHookOf(bridge) = "none" THEN 0
    ELSE IF CheckHookOf(bridge) = "atomic_check"
    THEN atomic_check(bridge, refusing)
    ELSE -EINVAL

\* the bridges checked, last to B, up to the first one that refuses
CheckedBridges ==
    LET order == Reverse(FromBridge(chk.bridge))
        refusals == {i \in DOMAIN order :
                        CheckHookResult(order[i], chk.env.refusing) # 0}
    IN  IF refusals = {} THEN order
        ELSE SubSeq(order, 1,
                    CHOOSE i \in refusals : \A j \in refusals : i <= j)

\* the calls of check hooks among the hook calls of the check
CheckHookCalls == SelectSeq(chk.calls, LAMBDA c : c[1] \in CheckHooks)

\* C26: drm_atomic_bridge_chain_check(B) finishes the bus-format
\* negotiation before it calls any atomic_check/mode_fixup hook and calls
\* none of them when the negotiation fails; on success it calls the hooks
\* from the last bridge back to B in that order (atomic_check if present,
\* else mode_fixup, never both for one bridge), returns the first non-zero
\* result (-EINVAL for a refusing mode_fixup) without calling the hooks of
\* the remaining bridges, and returns 0 only if every hook accepted.
C26_NegotiateThenCheck ==
    Checked =>
        /\ \A i, j \in DOMAIN chk.calls :
              (chk.calls[i][1] \in NegotiationHooks
                  /\ chk.calls[j][1] \in CheckHooks) => i < j
        /\ chk.select_ret # 0 =>
              /\ CheckHookCalls = << >>
              /\ chk.ret = chk.select_ret
        /\ chk.select_ret = 0 =>
              LET with == SelectSeq(CheckedBridges,
                                    LAMBDA b : CheckHookOf(b) # "none")
                  last == CheckedBridges[Len(CheckedBridges)]
              IN  /\ CheckHookCalls =
                        [i \in 1..Len(with) |-> <<CheckHookOf(with[i]), with[i]>>]
                  /\ chk.ret = CheckHookResult(last, chk.env.refusing)
                  /\ chk.ret = 0 <=>
                        \A b \in Bridges :
                           (\E i \in DOMAIN FromBridge(chk.bridge) :
                               FromBridge(chk.bridge)[i] = b) =>
                              CheckHookResult(b, chk.env.refusing) = 0

\* a check whose negotiation called hooks and succeeded, and whose last
\* bridge refused, with an earlier bridge's hook left uncalled
C26_Witness ==
    /\ Checked
    /\ chk.select_ret = 0
    /\ chk.ret # 0
    /\ \E i \in DOMAIN chk.calls : chk.calls[i][1] \in NegotiationHooks
    /\ Len(CheckHookCalls) >= 1
    /\ \E i \in DOMAIN FromBridge(chk.bridge) :
          /\ CheckHookOf(FromBridge(chk.bridge)[i]) # "none"
          /\ \A j \in DOMAIN chk.calls :
                chk.calls[j][2] # FromBridge(chk.bridge)[i]
                   \/ chk.calls[j][1] \notin CheckHooks

\* the last bridge of the chain the check was called on
LastBridge == ChainOf(chk.bridge)[Len(ChainOf(chk.bridge))]

\* the candidate output formats of the last bridge, in the order reported
OutCandidates ==
    IF "atomic_get_output_bus_fmts" \in atomic_funcs(LastBridge)
    THEN atomic_get_output_bus_fmts(LastBridge)
    ELSE conn_out_bus_fmts

RECURSIVE Admits(_, _, _)
\* there is a chain of formats from bridge cur, asked for out at its
\* output, back to bridge first: each bridge reports the format asked from
\* its predecessor among its input formats for the format asked from it, a
\* bridge without atomic_get_input_bus_fmts takes any output and asks its
\* predecessor for MEDIA_BUS_FMT_FIXED
Admits(first, cur, out) ==
    IF "atomic_get_input_bus_fmts" \notin atomic_funcs(cur)
    THEN cur = first
            \/ Admits(first, drm_bridge_chain_get_prev_bridge(cur),
                      MEDIA_BUS_FMT_FIXED)
    ELSE LET in == atomic_get_input_bus_fmts(cur, out)
         IN  /\ Len(in) # 0
             /\ cur = first
                   \/ \E i \in DOMAIN in :
                         Admits(first, drm_bridge_chain_get_prev_bridge(cur),
                                in[i])

\* the input format of the first working combination for bridge cur asked
\* for out: the first of its input formats its predecessors admit
FirstWorkingInput(first, cur, out) ==
    LET in == atomic_get_input_bus_fmts(cur, out)
        prev == drm_bridge_chain_get_prev_bridge(cur)
    IN  IF "atomic_get_input_bus_fmts" \notin atomic_funcs(cur)
        THEN MEDIA_BUS_FMT_FIXED
        ELSE IF cur = first
        THEN in[1]
        ELSE in[CHOOSE i \in DOMAIN in :
                   /\ Admits(first, prev, in[i])
                   /\ \A j \in 1..(i - 1) : ~Admits(first, prev, in[j])]

\* the candidates that work, by their position
Working ==
    {i \in DOMAIN OutCandidates :
        Admits(chk.bridge, LastBridge, OutCandidates[i])}

RECURSIVE FirstWorkingOutput(_)
\* the output format of a bridge between B and the last bridge in the first
\* working combination: the first working candidate for the last bridge,
\* for the others the input format of their successor
FirstWorkingOutput(bridge) ==
    IF bridge = LastBridge
    THEN OutCandidates[CHOOSE i \in Working : \A j \in Working : i <= j]
    ELSE FirstWorkingInput(chk.bridge, drm_bridge_chain_get_next_bridge(bridge),
             FirstWorkingOutput(drm_bridge_chain_get_next_bridge(bridge)))

\* the bridges the negotiation runs over
Negotiated == {FromBridge(chk.bridge)[i] : i \in DOMAIN FromBridge(chk.bridge)}

\* nothing the negotiation needs is missing
NothingMissing ==
    /\ chk.env.nostate = NULL
    /\ chk.env.nomem = NULL
    /\ ~chk.env.nomem_out

\* C27: with every bridge state available and no allocation failure,
\* drm_atomic_bridge_chain_select_bus_fmts returns 0 if and only if some
\* candidate output format of the last bridge admits a backward chain of
\* formats to B, it returns -ENOTSUPP exactly when none does, and the
\* formats selected are those of the first working combination, candidates
\* and input formats taken in the order reported.
C27_FirstWorkingCombination ==
    (Checked /\ NothingMissing) =>
        /\ chk.select_ret = 0 <=> Working # {}
        /\ chk.select_ret = -ENOTSUPP <=> Working = {}
        /\ Working # {} =>
              \A b \in Negotiated :
                 bus_cfg[b] =
                    [input |-> FirstWorkingInput(chk.bridge, b,
                                                 FirstWorkingOutput(b)),
                     output |-> FirstWorkingOutput(b)]

\* a negotiation that succeeds with a later candidate of the last bridge,
\* and with a later input format of a bridge, the earlier ones failing
C27_Witness ==
    /\ Checked
    /\ NothingMissing
    /\ chk.select_ret = 0
    /\ 1 \notin Working
    /\ \E b \in Negotiated :
          /\ "atomic_get_input_bus_fmts" \in atomic_funcs(b)
          /\ bus_cfg[b].input #
                atomic_get_input_bus_fmts(b, bus_cfg[b].output)[1]

\* a negotiation that finds no working combination among several
C27_WitnessNone ==
    /\ Checked
    /\ NothingMissing
    /\ chk.select_ret = -ENOTSUPP
    /\ Len(OutCandidates) > 1
    /\ Len(chk.calls) > 2

\* a step of the check
CheckStep == chk'.name = "drm_atomic_bridge_chain_check"

\* C28: after a successful bus-format negotiation over the chain from
\* bridge B to the last bridge, the output format of every bridge in that
\* range is the input format of its successor, the output format of the
\* last bridge is one of the candidate output formats, and a bridge without
\* atomic_get_input_bus_fmts has input format MEDIA_BUS_FMT_FIXED; after a
\* failed negotiation (-ENOTSUPP) no bridge state's input or output format
\* has been modified.
C28_NegotiatedFormats ==
    [][CheckStep =>
          LET range == FromBridge(chk'.bridge)
              last == range[Len(range)]
              cands == IF "atomic_get_output_bus_fmts" \in atomic_funcs(last)
                       THEN atomic_get_output_bus_fmts(last)
                       ELSE conn_out_bus_fmts
          IN  /\ chk'.select_ret = 0 =>
                    /\ \A i \in 1..(Len(range) - 1) :
                          bus_cfg'[range[i]].output =
                             bus_cfg'[range[i + 1]].input
                    /\ \E i \in DOMAIN cands :
                          bus_cfg'[last].output = cands[i]
                    /\ \A i \in DOMAIN range :
                          "atomic_get_input_bus_fmts"
                                \notin atomic_funcs(range[i]) =>
                             bus_cfg'[range[i]].input = MEDIA_BUS_FMT_FIXED
              /\ chk'.select_ret = -ENOTSUPP => bus_cfg' = bus_cfg
    ]_vars

\* a successful negotiation over several bridges that agreed on a format
\* other than MEDIA_BUS_FMT_FIXED, one of them without
\* atomic_get_input_bus_fmts
C28_Witness ==
    /\ Checked
    /\ chk.select_ret = 0
    /\ Len(FromBridge(chk.bridge)) > 1
    /\ \E b \in Negotiated :
          "atomic_get_input_bus_fmts" \notin atomic_funcs(b)
    /\ \E b \in Negotiated :
          /\ b # LastBridge
          /\ bus_cfg[b].output # MEDIA_BUS_FMT_FIXED
          /\ bus_cfg[b].output =
                bus_cfg[drm_bridge_chain_get_next_bridge(b)].input

(* ---------------------------------------------------------------------- *)
(* The watchdog and the clock and runtime-PM references of a job           *)
(* ---------------------------------------------------------------------- *)

\* rockchip_vpu_job_finish has run for job j
Finished(j) == finishes[j] # << >>

\* job j was ended in device_run, before the run hook
AbortedInDeviceRun(j) ==
    \E n \in 1..Len(finishes[j]) : finishes[j][n].path = "device_run"

\* the run hook of job j returned at a missing control
AbortedAtControl(j) ==
    /\ j <= njobs
    /\ (run_job > j \/ (run_job = j /\ run_pc = "idle"))
    /\ ~AbortedInDeviceRun(j)
    /\ ~(RequiredControls \subseteq job_ctrls[j])

\* C31: in every reachable state the watchdog delayed work is pending only
\* while a job is in flight (device_run has been called for the current
\* context and rockchip_vpu_job_finish has not yet run for that job): once
\* a job has been finished by either path no watchdog remains armed for
\* it, and a job aborted in device_run or in the missing-control path of
\* the run function never has an armed watchdog.
C31_WatchdogOnlyInFlight ==
    /\ wd_pending =>
          /\ cur_job # 0
          /\ curr_ctx # 0
          /\ run_job = cur_job
          /\ Armed(cur_job)
          /\ ~Finished(cur_job)
    /\ \A j \in Jobs :
          (AbortedInDeviceRun(j) \/ AbortedAtControl(j)) => ~Armed(j)

\* a job that was armed and finished by the interrupt path, and a later
\* job aborted in device_run, with no watchdog pending
C31_Witness ==
    /\ ~wd_pending
    /\ \E j \in Jobs :
          /\ Armed(j)
          /\ Finished(j)
          /\ finishes[j][1].path = "irq"
    /\ \E j \in Jobs : AbortedInDeviceRun(j)

\* no job is in flight and no handler is running
DeviceIdle ==
    /\ curr_ctx = 0
    /\ run_pc = "idle"
    /\ wd_pc = "idle"
    /\ irq_pc = "idle"

\* C32: clock and runtime-PM references are balanced per job: on every
\* path (success, watchdog timeout, clk_bulk_enable failure,
\* pm_runtime_get_sync failure), after the job is finished the number of
\* clk_bulk_disable calls equals the number of successful clk_bulk_enable
\* calls and the number of pm_runtime_put_autosuspend calls equals the
\* number of pm_runtime_get_sync calls, so neither counter ever drops
\* below its value before device_run.
C32_ReferencesBalanced ==
    /\ clk_count >= 0
    /\ pm_count >= 0
    /\ DeviceIdle => (clk_count = 0 /\ pm_count = 0)

(* ---------------------------------------------------------------------- *)
(* The formats of a context: open, try_fmt, s_fmt, start_streaming         *)
(* ---------------------------------------------------------------------- *)

RK_VPU_MODE_NONE == -1

RK_VPU_MODE_JPEG_ENC == 0

\* the format tables of a variant: raw formats (RK_VPU_MODE_NONE) and
\* coded ones, in either order
FormatTables ==
    { << [fourcc |-> "NV12", codec_mode |-> RK_VPU_MODE_NONE],
         [fourcc |-> "YUYV", codec_mode |-> RK_VPU_MODE_NONE],
         [fourcc |-> "JPEG", codec_mode |-> RK_VPU_MODE_JPEG_ENC] >>,
      << [fourcc |-> "JPEG", codec_mode |-> RK_VPU_MODE_JPEG_ENC],
         [fourcc |-> "NV12", codec_mode |-> RK_VPU_MODE_NONE] >> }

\* the pixel formats userspace may ask for: those of the tables and one
\* the driver does not know
Fourccs == {"NV12", "YUYV", "JPEG", "RGB3"}

\* rockchip_vpu_find_format(formats, num_fmts, fourcc): the first entry
\* with the fourcc, or NULL
rockchip_vpu_find_format(fmts, fourcc) ==
    IF \E i \in DOMAIN fmts : fmts[i].fourcc = fourcc
    THEN CHOOSE i \in DOMAIN fmts :
            /\ fmts[i].fourcc = fourcc
            /\ \A j \in 1..(i - 1) : fmts[j].fourcc # fourcc
    ELSE NULL

\* rockchip_vpu_get_default_fmt(formats, num_fmts, bitstream): the first
\* entry that is coded (bitstream) or raw (not bitstream), or NULL
rockchip_vpu_get_default_fmt(fmts, bitstream) ==
    LET fits == {i \in DOMAIN fmts :
                    bitstream = (fmts[i].codec_mode # RK_VPU_MODE_NONE)}
    IN  IF fits = {} THEN NULL
        ELSE CHOOSE i \in fits : \A j \in fits : i <= j

\* ctx->buf_finish == rockchip_vpu_enc_buf_finish
rockchip_vpu_is_encoder_ctx == fmt_ctx = "encoder"

\* rockchip_vpu_vq_is_coded(q) for either kind of context
vq_is_coded(q) == rockchip_vpu_is_encoder_ctx # (q = "OUTPUT")

\* vidioc_try_fmt(file, priv, f, capture): the pixelformat left in f; a
\* fourcc the table does not hold is replaced by the default format of the
\* queue's kind, a fourcc the table holds is kept whatever its kind
vidioc_try_fmt(capture, pixelformat) ==
    LET coded == capture = rockchip_vpu_is_encoder_ctx
        fmt == rockchip_vpu_find_format(formats, pixelformat)
    IN  [ret |-> 0,
         pixelformat |->
            IF fmt = NULL
            THEN formats[rockchip_vpu_get_default_fmt(formats, coded)].fourcc
            ELSE pixelformat]

FmtCall(name, capture, pixelformat, ret) ==
    [name |-> name, capture |-> capture, pixelformat |-> pixelformat,
     ret |-> ret]

\* the device was probed with one of the format tables, no file is open
InitFmt ==
    /\ fmt_ctx = "closed"
    /\ formats \in FormatTables
    /\ vpu_src_fmt = NULL
    /\ vpu_dst_fmt = NULL
    /\ pix_fmt = [src |-> "0", dst |-> "0"]
    /\ vq = [q \in Queues |-> [busy |-> FALSE, streaming |-> FALSE]]
    /\ codec_ops = {}
    /\ ioctl = FmtCall("none", FALSE, "0", 0)
    /\ InitJob
    /\ ParkedHdr
    /\ ParkedRps
    /\ ParkedFrm
    /\ ParkedStrm
    /\ ParkedFin
    /\ ParkedBrg
    /\ ParkedChk

\* rockchip_vpu_reset_raw_fmt on an encoder (enc) or a decoder context: the
\* raw queue gets the default raw format
rockchip_vpu_reset_raw_fmt(enc, src, dst, pix) ==
    LET raw_vpu_fmt == rockchip_vpu_get_default_fmt(formats, FALSE)
    IN  IF enc
        THEN [src |-> raw_vpu_fmt, dst |-> dst,
              pix |-> [pix EXCEPT !.src = formats[raw_vpu_fmt].fourcc]]
        ELSE [src |-> src, dst |-> raw_vpu_fmt,
              pix |-> [pix EXCEPT !.dst = formats[raw_vpu_fmt].fourcc]]

\* rockchip_vpu_reset_encoded_fmt: the coded queue gets the default coded
\* format
rockchip_vpu_reset_encoded_fmt(enc, src, dst, pix) ==
    LET vpu_fmt == rockchip_vpu_get_default_fmt(formats, TRUE)
    IN  IF enc
        THEN [src |-> src, dst |-> vpu_fmt,
              pix |-> [pix EXCEPT !.dst = formats[vpu_fmt].fourcc]]
        ELSE [src |-> vpu_fmt, dst |-> dst,
              pix |-> [pix EXCEPT !.src = formats[vpu_fmt].fourcc]]

\* rockchip_vpu_reset_fmts(ctx)
rockchip_vpu_reset_fmts(enc, src, dst, pix) ==
    LET coded == rockchip_vpu_reset_encoded_fmt(enc, src, dst, pix)
    IN  rockchip_vpu_reset_raw_fmt(enc, coded.src, coded.dst, coded.pix)

\* rockchip_vpu_open on the encoder or the decoder video device, up to
\* rockchip_vpu_reset_fmts(ctx)
Open(kind) ==
    /\ fmt_ctx = "closed"
    /\ fmt_ctx' = kind
    /\ \E r \in {rockchip_vpu_reset_fmts(kind = "encoder", vpu_src_fmt,
                                         vpu_dst_fmt, pix_fmt)} :
          /\ vpu_src_fmt' = r.src
          /\ vpu_dst_fmt' = r.dst
          /\ pix_fmt' = r.pix
    /\ ioctl' = FmtCall("open", FALSE, "0", 0)
    /\ UNCHANGED <<formats, vq, codec_ops>>
    /\ UNCHANGED <<hdrVars, rpsVars, jobVars, frmVars, strmVars, finVars,
                   brgVars, chkVars>>

\* VIDIOC_TRY_FMT on the CAPTURE (capture) or the OUTPUT queue
TryFmt(capture, pixelformat) ==
    /\ fmt_ctx # "closed"
    /\ ioctl' = FmtCall("vidioc_try_fmt", capture,
                        vidioc_try_fmt(capture, pixelformat).pixelformat,
                        vidioc_try_fmt(capture, pixelformat).ret)
    /\ UNCHANGED <<fmt_ctx, formats, vpu_src_fmt, vpu_dst_fmt, pix_fmt, vq,
                   codec_ops>>
    /\ UNCHANGED <<hdrVars, rpsVars, jobVars, frmVars, strmVars, finVars,
                   brgVars, chkVars>>

\* vidioc_s_fmt_out_mplane; the sizes asked for are not looked at
vidioc_s_fmt_out_mplane(pixelformat) ==
    LET tried == vidioc_try_fmt(FALSE, pixelformat)
        found == rockchip_vpu_find_format(formats, tried.pixelformat)
        pix == [pix_fmt EXCEPT !.src = tried.pixelformat]
        same == [ret |-> -EBUSY, pixelformat |-> pixelformat,
                 src |-> vpu_src_fmt, dst |-> vpu_dst_fmt, pix |-> pix_fmt]
    IN  IF vq["OUTPUT"].streaming
        THEN same
        ELSE IF ~rockchip_vpu_is_encoder_ctx /\ vq["CAPTURE"].busy
        THEN same
        ELSE IF rockchip_vpu_is_encoder_ctx
        THEN [ret |-> 0, pixelformat |-> tried.pixelformat,
              src |-> found, dst |-> vpu_dst_fmt, pix |-> pix]
        ELSE LET r == rockchip_vpu_reset_raw_fmt(FALSE, found, vpu_dst_fmt,
                                                 pix)
             IN  [ret |-> 0, pixelformat |-> tried.pixelformat,
                  src |-> r.src, dst |-> r.dst, pix |-> r.pix]

\* vidioc_s_fmt_cap_mplane; same_size: the width and the height asked for
\* are those of ctx->dst_fmt
vidioc_s_fmt_cap_mplane(pixelformat, same_size) ==
    LET tried == vidioc_try_fmt(TRUE, pixelformat)
        found == rockchip_vpu_find_format(formats, tried.pixelformat)
        pix == [pix_fmt EXCEPT !.dst = tried.pixelformat]
        same == [ret |-> -EBUSY, pixelformat |-> pixelformat,
                 src |-> vpu_src_fmt, dst |-> vpu_dst_fmt, pix |-> pix_fmt]
    IN  IF vq["CAPTURE"].streaming
        THEN same
        ELSE IF rockchip_vpu_is_encoder_ctx /\ vq["OUTPUT"].busy
                   /\ (pixelformat # pix_fmt.dst \/ ~same_size)
        THEN same
        ELSE IF rockchip_vpu_is_encoder_ctx
        THEN LET r == rockchip_vpu_reset_raw_fmt(TRUE, vpu_src_fmt, found, pix)
             IN  [ret |-> 0, pixelformat |-> tried.pixelformat,
                  src |-> r.src, dst |-> r.dst, pix |-> r.pix]
        ELSE [ret |-> 0, pixelformat |-> tried.pixelformat,
              src |-> vpu_src_fmt, dst |-> found, pix |-> pix]

\* VIDIOC_S_FMT on the CAPTURE (capture) or the OUTPUT queue
SFmt(capture, pixelformat, same_size) ==
    /\ fmt_ctx # "closed"
    \* the sizes are compared on one path only
    /\ ~same_size =>
          (capture /\ rockchip_vpu_is_encoder_ctx /\ vq["OUTPUT"].busy
              /\ ~vq["CAPTURE"].streaming /\ pixelformat = pix_fmt.dst)
    /\ \E r \in {IF capture
                 THEN vidioc_s_fmt_cap_mplane(pixelformat, same_size)
                 ELSE vidioc_s_fmt_out_mplane(pixelformat)} :
          /\ vpu_src_fmt' = r.src
          /\ vpu_dst_fmt' = r.dst
          /\ pix_fmt' = r.pix
          /\ ioctl' = FmtCall("vidioc_s_fmt", capture, r.pixelformat, r.ret)
    /\ UNCHANGED <<fmt_ctx, formats, vq, codec_ops>>
    /\ UNCHANGED <<hdrVars, rpsVars, jobVars, frmVars, strmVars, finVars,
                   brgVars, chkVars>>

\* VIDIOC_REQBUFS on queue q, which does not stream: buffers are allocated
\* (count > 0) or freed
ReqBufs(q, count) ==
    /\ fmt_ctx # "closed"
    /\ ~vq[q].streaming
    /\ vq' = [vq EXCEPT ![q].busy = count > 0]
    /\ ioctl' = FmtCall("reqbufs", q = "CAPTURE", "0", 0)
    /\ UNCHANGED <<fmt_ctx, formats, vpu_src_fmt, vpu_dst_fmt, pix_fmt,
                   codec_ops>>
    /\ UNCHANGED <<hdrVars, rpsVars, jobVars, frmVars, strmVars, finVars,
                   brgVars, chkVars>>

\* the index rockchip_vpu_start_streaming takes for variant->codec_ops on
\* the coded queue q
start_streaming_codec_mode(q) ==
    IF q = "OUTPUT"
    THEN formats[vpu_src_fmt].codec_mode
    ELSE formats[vpu_dst_fmt].codec_mode

\* VIDIOC_STREAMON on queue q: rockchip_vpu_start_streaming
StreamOn(q) ==
    /\ fmt_ctx # "closed"
    /\ vq[q].busy
    /\ ~vq[q].streaming
    /\ codec_ops' = IF vq_is_coded(q)
                    THEN {start_streaming_codec_mode(q)}
                    ELSE codec_ops
    /\ vq' = [vq EXCEPT ![q].streaming = TRUE]
    /\ ioctl' = FmtCall("streamon", q = "CAPTURE", "0", 0)
    /\ UNCHANGED <<fmt_ctx, formats, vpu_src_fmt, vpu_dst_fmt, pix_fmt>>
    /\ UNCHANGED <<hdrVars, rpsVars, jobVars, frmVars, strmVars, finVars,
                   brgVars, chkVars>>

\* VIDIOC_STREAMOFF on queue q
StreamOff(q) ==
    /\ fmt_ctx # "closed"
    /\ vq[q].streaming
    /\ vq' = [vq EXCEPT ![q].streaming = FALSE]
    /\ ioctl' = FmtCall("streamoff", q = "CAPTURE", "0", 0)
    /\ UNCHANGED <<fmt_ctx, formats, vpu_src_fmt, vpu_dst_fmt, pix_fmt,
                   codec_ops>>
    /\ UNCHANGED <<hdrVars, rpsVars, jobVars, frmVars, strmVars, finVars,
                   brgVars, chkVars>>

NextFmt ==
    \/ \E kind \in {"encoder", "decoder"} : Open(kind)
    \/ \E capture \in BOOLEAN, pixelformat \in Fourccs :
          TryFmt(capture, pixelformat)
    \/ \E capture \in BOOLEAN, pixelformat \in Fourccs, same_size \in BOOLEAN :
          SFmt(capture, pixelformat, same_size)
    \/ \E q \in Queues, count \in {0, 1} : ReqBufs(q, count)
    \/ \E q \in Queues : StreamOn(q)
    \/ \E q \in Queues : StreamOff(q)

SpecFmt == InitFmt /\ [][NextFmt]_vars

\* the format stored for the coded queue of the context
CodedFmt == IF rockchip_vpu_is_encoder_ctx THEN vpu_dst_fmt ELSE vpu_src_fmt

\* C33: after open and any sequence of try_fmt/s_fmt calls on either
\* queue, the format stored for the coded queue of a context (vpu_dst_fmt
\* for an encoder, vpu_src_fmt for a decoder) is non-NULL and has
\* codec_mode != RK_VPU_MODE_NONE, so rockchip_vpu_start_streaming on the
\* coded queue never indexes variant->codec_ops with -1.
C33_CodedFormatHasMode ==
    fmt_ctx # "closed" =>
        /\ CodedFmt # NULL
        /\ formats[CodedFmt].codec_mode # RK_VPU_MODE_NONE
        /\ RK_VPU_MODE_NONE \notin codec_ops

====
